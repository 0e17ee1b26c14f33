--------------------------- MODULE AccountsProofs ---------------------------
(***************************************************************************)
(* Proofs about Accounts, for every value of its constants: its types, the *)
(* binding to a directory and the date of the last change, how many wrong  *)
(* passwords are tested before the lock and how many while it lasts.       *)
(***************************************************************************)
EXTENDS Accounts, FiniteSetTheorems, TLAPS

-----------------------------------------------------------------------------
(* Types.  A row that was found stays, dates are of the past, and a login  *)
(* that is about to write has compared the binding it read.                *)

Shapes ==
    {Idle} \cup CreateRequest
        \cup {q \in LdapRequest : q.counts => Exists(q.user)}
        \cup {q \in FoundRequest :
                 /\ q.counts \/ q.seen # Absent => Exists(q.user)
                 /\ q.changed <= now
                 /\ q.seen # Absent => q.seen.dir \in {Absent, q.from} /\ q.seen.changed <= now}
        \cup {q \in UserRequest \cup ResetRequest \cup MoveRequest : Exists(q.user)}

AccountsInv ==
    /\ AccountsTypeOK
    /\ \A u \in Users : Exists(u) => account[u].failed <= MaxAttempts /\ account[u].changed <= now
    /\ \A u \in Users, d \in Directories : entry[u][d] # Absent => entry[u][d] <= now
    /\ \A u \in Users : otp[u] # Absent => Exists(u)
    /\ req \in [Requests -> Shapes]

\* A step writes one row, or none.
RowStep ==
    \/ account' = account
    \/ \E u \in Users, row \in Account :
           /\ row.failed <= MaxAttempts /\ row.changed <= now
           /\ account' = [account EXCEPT ![u] = row]

\* Rows, dates and the shapes of requests survive such a step.
LEMMA RowKeeps ==
    ASSUME AccountsInv, RowStep, now' \in {now, now + 1}
    PROVE  /\ account' \in [Users -> Account \cup {Absent}]
           /\ now' \in Nat /\ now <= now'
           /\ \A u \in Users : Exists(u) => account'[u] # Absent
           /\ \A u \in Users : account'[u] # Absent =>
                  account'[u].failed <= MaxAttempts /\ account'[u].changed <= now'
           /\ Shapes \subseteq Shapes'
<1>1. now \in Nat /\ now' \in Nat /\ now <= now'
  BY DEF AccountsInv, AccountsTypeOK
<1>2. account' \in [Users -> Account \cup {Absent}]
  BY DEF RowStep, AccountsInv, AccountsTypeOK
<1>3. \A u \in Users : Exists(u) => account'[u] # Absent
  BY AccountsAbsentAssumption DEF RowStep, AccountsInv, AccountsTypeOK, Exists
<1>4. ASSUME NEW u \in Users, account'[u] # Absent
      PROVE  account'[u].failed <= MaxAttempts /\ account'[u].changed <= now'
  <2>1. account'[u].failed <= MaxAttempts /\ account'[u].changed <= now
    BY <1>4 DEF RowStep, AccountsInv, AccountsTypeOK, Exists
  <2>2. account'[u].changed \in Nat
    BY <1>2, <1>4 DEF Account
  <2>3. QED
    BY <1>1, <2>1, <2>2
<1>5. ASSUME NEW q \in Shapes
      PROVE  q \in Shapes'
  <2>1. CASE q \in {Idle} \cup CreateRequest
    BY <2>1 DEF Shapes
  <2>2. CASE q \in LdapRequest /\ (q.counts => Exists(q.user))
    BY <1>3, <2>2 DEF Shapes, LdapRequest, Exists
  <2>3. CASE /\ q \in FoundRequest
             /\ q.counts \/ q.seen # Absent => Exists(q.user)
             /\ q.changed <= now
             /\ q.seen # Absent => q.seen.dir \in {Absent, q.from} /\ q.seen.changed <= now
    <3>1. q.user \in Users /\ q.changed \in Nat /\ (q.seen # Absent => q.seen.changed \in Nat)
      BY <2>3 DEF FoundRequest, Binding
    <3>2. q.changed <= now' /\ (q.seen # Absent => q.seen.changed <= now')
      BY <1>1, <2>3, <3>1
    <3>3. q.counts \/ q.seen # Absent => account'[q.user] # Absent
      BY <1>3, <2>3, <3>1
    <3>4. QED
      BY <2>3, <3>2, <3>3 DEF Shapes, Exists
  <2>4. CASE q \in UserRequest \cup ResetRequest \cup MoveRequest /\ Exists(q.user)
    BY <1>3, <2>4 DEF Shapes, UserRequest, ResetRequest, MoveRequest, Exists
  <2>5. QED
    BY <2>1, <2>2, <2>3, <2>4 DEF Shapes
<1>6. QED
  BY <1>1, <1>2, <1>3, <1>4, <1>5

\* A request's fields follow from its control point.
LEMMA ShapeAt ==
    ASSUME NEW q \in Shapes
    PROVE  /\ q.at = "directory" => q \in LdapRequest /\ (q.counts => Exists(q.user))
           /\ q.at \in {"find", "save"} =>
                  /\ q \in FoundRequest
                  /\ q.counts \/ q.seen # Absent => Exists(q.user)
                  /\ q.changed <= now
                  /\ q.seen # Absent => q.seen.dir \in {Absent, q.from} /\ q.seen.changed <= now
           /\ q.at = "create" => q \in CreateRequest
           /\ q.at \in {"retype", "record", "lock", "otp_set", "new_password", "otp_del"}
                  => q \in UserRequest /\ Exists(q.user)
           /\ q.at = "reset" => q \in ResetRequest /\ Exists(q.user)
           /\ q.at = "move" => q \in MoveRequest /\ Exists(q.user)
<1>1. CASE q \in {Idle} \cup CreateRequest
  BY <1>1 DEF Idle, CreateRequest
<1>2. CASE q \in LdapRequest /\ (q.counts => Exists(q.user))
  BY <1>2 DEF LdapRequest
<1>3. CASE /\ q \in FoundRequest
           /\ q.counts \/ q.seen # Absent => Exists(q.user)
           /\ q.changed <= now
           /\ q.seen # Absent => q.seen.dir \in {Absent, q.from} /\ q.seen.changed <= now
  BY <1>3 DEF FoundRequest
<1>4. CASE q \in UserRequest \cup ResetRequest \cup MoveRequest /\ Exists(q.user)
  BY <1>4 DEF UserRequest, ResetRequest, MoveRequest
<1>5. QED
  BY <1>1, <1>2, <1>3, <1>4 DEF Shapes

\* A step that writes a row at most, no entry, and gives requests their shapes.
LEMMA StepKeeps ==
    ASSUME AccountsInv, RowStep, now' \in {now, now + 1}, entry' = entry,
           otp' \in [Users -> Otps \cup {Absent}],
           \A u \in Users : otp'[u] # Absent => Exists(u),
           late' \in [Users -> Nat], wrong' \in [Users -> Nat], stale' \subseteq Users,
           req' \in [Requests -> Shapes']
    PROVE  AccountsInv'
<1>1. /\ account' \in [Users -> Account \cup {Absent}]
      /\ now' \in Nat /\ now <= now' /\ now \in Nat
      /\ \A u \in Users : Exists(u) => account'[u] # Absent
      /\ \A u \in Users : account'[u] # Absent =>
             account'[u].failed <= MaxAttempts /\ account'[u].changed <= now'
  BY RowKeeps DEF AccountsInv, AccountsTypeOK
<1>2. req' \in [Requests -> {Idle} \cup LdapRequest \cup FoundRequest \cup CreateRequest
                                \cup UserRequest \cup ResetRequest \cup MoveRequest]
  <2>1. Shapes' \subseteq {Idle} \cup LdapRequest \cup FoundRequest \cup CreateRequest
                              \cup UserRequest \cup ResetRequest \cup MoveRequest
    BY DEF Shapes
  <2>2. QED
    BY <2>1
<1>3. AccountsTypeOK'
  BY <1>1, <1>2 DEF AccountsInv, AccountsTypeOK
<1>4. \A u \in Users, d \in Directories : entry'[u][d] # Absent => entry'[u][d] <= now'
  <2>1. ASSUME NEW u \in Users, NEW d \in Directories, entry[u][d] # Absent
        PROVE  entry[u][d] \in Nat /\ entry[u][d] <= now
    BY <2>1 DEF AccountsInv, AccountsTypeOK
  <2>2. QED
    BY <1>1, <2>1
<1>5. QED
  BY <1>1, <1>3, <1>4 DEF AccountsInv, Exists

\* Writing a row of these bounds is one such step.
LEMMA WriteRow ==
    ASSUME NEW u \in Users, NEW row \in Account, row.failed <= MaxAttempts, row.changed <= now,
           account' = [account EXCEPT ![u] = row]
    PROVE  RowStep
BY DEF RowStep

\* Beginning a handler.
LEMMA InvStart ==
    ASSUME AccountsInv, NEW r \in Requests, NEW u \in Users, Start(r, u)
    PROVE  AccountsInv'
<1>1. RowStep /\ UNCHANGED <<now, store, stale>> /\ Shapes \subseteq Shapes'
  <2>1. RowStep /\ UNCHANGED <<now, store, stale>>
    BY DEF Start, LocalLogin, LdapLogin, SplpLogin, SignUp, ForgotRead, ResetRead, MoveDirectory,
       history, store, CountWrong, RowStep
  <2>2. QED
    BY <2>1, RowKeeps
<1>2. ASSUME NEW q \in Shapes, Continue(r, q)
      PROVE  req' \in [Requests -> Shapes']
  BY <1>1, <1>2 DEF Continue, AccountsInv
<1>3. ASSUME late' \in [Users -> Nat], wrong' \in [Users -> Nat], req' \in [Requests -> Shapes']
      PROVE  AccountsInv'
  BY <1>1, <1>3, StepKeeps DEF store, AccountsInv, AccountsTypeOK
<1>4. ASSUME UNCHANGED history, req' \in [Requests -> Shapes']
      PROVE  AccountsInv'
  BY <1>3, <1>4 DEF history, AccountsInv, AccountsTypeOK
<1>5. ASSUME NEW right \in BOOLEAN, LocalLogin(r, u, right)
      PROVE  AccountsInv'
  <2>1. /\ [at |-> "reset", user |-> u, counts |-> FALSE] \in Shapes
        /\ [at |-> "record", user |-> u] \in Shapes
    BY <1>5 DEF LocalLogin, Shapes, UserRequest, ResetRequest
  <2>2. late' \in [Users -> Nat] /\ wrong' \in [Users -> Nat]
    BY <1>5 DEF LocalLogin, CountWrong, history, AccountsInv, AccountsTypeOK
  <2>3. QED
    BY <1>2, <1>3, <1>5, <2>1, <2>2 DEF LocalLogin
<1>6. ASSUME NEW via \in {"email", "name"}, NEW known \in NameFinds(u), LdapLogin(r, u, via, known)
      PROVE  AccountsInv'
  <2>1. [at |-> "directory", user |-> u, via |-> via, counts |-> known, asked |-> "PRIMARY"]
            \in Shapes
    <3>1. known \in BOOLEAN /\ (known => Exists(u))
      BY DEF NameFinds, Exists
    <3>2. QED
      BY <3>1 DEF Shapes, LdapRequest, Directories
  <2>2. QED
    BY <1>2, <1>4, <1>6, <2>1 DEF LdapLogin
<1>7. CASE SplpLogin(r, u)
  <2>1. Exists(u) => [at |-> "retype", user |-> u] \in Shapes
    BY DEF Shapes, UserRequest
  <2>2. [at |-> "create", user |-> u, type |-> "GOVERNMENT", local |-> FALSE] \in Shapes
    BY DEF Shapes, CreateRequest, Types
  <2>3. QED
    BY <1>2, <1>4, <1>7, <2>1, <2>2 DEF SplpLogin
<1>8. ASSUME NEW local \in BOOLEAN, SignUp(r, u, local)
      PROVE  AccountsInv'
  <2>1. [at |-> "create", user |-> u, type |-> "EXTERNAL", local |-> local] \in Shapes
    BY DEF Shapes, CreateRequest, Types
  <2>2. QED
    BY <1>2, <1>4, <1>8, <2>1 DEF SignUp
<1>9. CASE ForgotRead(r, u)
  <2>1. [at |-> "otp_set", user |-> u] \in Shapes
    BY <1>9 DEF ForgotRead, Shapes, UserRequest
  <2>2. QED
    BY <1>2, <1>4, <1>9, <2>1 DEF ForgotRead
<1>10. ASSUME NEW k \in Otps, ResetRead(r, u, k)
       PROVE  AccountsInv'
  <2>1. Exists(u)
    BY <1>10, AccountsAbsentAssumption DEF ResetRead, AccountsInv
  <2>2. [at |-> "new_password", user |-> u] \in Shapes
    BY <2>1 DEF Shapes, UserRequest
  <2>3. QED
    BY <1>2, <1>4, <1>10, <2>2 DEF ResetRead
<1>11. ASSUME NEW d \in Directories, MoveDirectory(r, u, d)
       PROVE  AccountsInv'
  <2>1. [at |-> "move", user |-> u, to |-> d] \in Shapes
    BY <1>11 DEF MoveDirectory, Shapes, MoveRequest
  <2>2. QED
    BY <1>2, <1>4, <1>11, <2>1 DEF MoveDirectory
<1>12. QED
  BY <1>5, <1>6, <1>7, <1>8, <1>9, <1>10, <1>11 DEF Start

\* Resuming one.
LEMMA InvResume ==
    ASSUME AccountsInv, NEW r \in Requests, Resume(r)
    PROVE  AccountsInv'
<1> DEFINE Fits == req' \in [Requests -> Shapes']
<1>1. ASSUME NEW q, q \in Shapes', Continue(r, q), Shapes \subseteq Shapes'
      PROVE  Fits
  BY <1>1 DEF Continue, AccountsInv
<1>2. Idle \in Shapes'
  BY DEF Shapes
<1>3. ASSUME RowStep, now' = now, entry' = entry, UNCHANGED <<otp, late, wrong>>,
             stale' \subseteq Users, Shapes \subseteq Shapes' => Fits
      PROVE  AccountsInv'
  BY <1>3, RowKeeps, StepKeeps DEF AccountsInv, AccountsTypeOK
<1>4. ASSUME UNCHANGED <<now, store, history>>, Shapes \subseteq Shapes' => Fits
      PROVE  AccountsInv'
  BY <1>3, <1>4 DEF store, history, RowStep, AccountsInv, AccountsTypeOK
<1>5. ASSUME req[r].user \in Users, NEW step \in {"record", "lock", "otp_del"},
             Exists(req[r].user), Go(r, step), Shapes \subseteq Shapes', UNCHANGED account
      PROVE  Fits
  <2>1. [at |-> step, user |-> req[r].user] \in Shapes
    BY <1>5 DEF Shapes, UserRequest
  <2>2. QED
    BY <1>1, <1>5, <2>1 DEF Go
<1>6. ASSUME req[r].user \in Users, req[r].counts => Exists(req[r].user), Reject(r),
             Shapes \subseteq Shapes', UNCHANGED account
      PROVE  Fits
  BY <1>1, <1>2, <1>5, <1>6 DEF Reject, Finish
<1>7. Finish(r) /\ Shapes \subseteq Shapes' => Fits
  BY <1>1, <1>2 DEF Finish
<1>8. req[r] \in Shapes
  BY DEF AccountsInv
<1>9. ASSUME req[r].user \in Users
      PROVE  CountWrong(req[r].user) => late' \in [Users -> Nat] /\ wrong' \in [Users -> Nat]
  BY <1>9 DEF CountWrong, AccountsInv, AccountsTypeOK
<1> HIDE DEF Fits
<1>10. CASE Directory(r)
  <2>1. req[r] \in LdapRequest /\ (req[r].counts => Exists(req[r].user)) /\ req[r].user \in Users
    BY <1>8, <1>10, ShapeAt DEF Directory, LdapRequest
  <2>2. UNCHANGED <<now, store, stale>>
    BY <1>10 DEF Directory, history
  <2>3. late' \in [Users -> Nat] /\ wrong' \in [Users -> Nat]
    BY <1>9, <1>10, <2>1 DEF Directory, history, AccountsInv, AccountsTypeOK
  <2>4. RowStep /\ Shapes \subseteq Shapes'
    BY <2>2, RowKeeps DEF store, RowStep
  <2>5. [req[r] EXCEPT !.asked = "SECONDARY"] \in Shapes
    BY <2>1 DEF Shapes, LdapRequest, Directories
  <2>6. LET q == req[r] IN
        entry[q.user][q.asked] # Absent =>
            [at |-> "find", user |-> q.user, counts |-> q.counts /\ q.via = "email", from |-> q.asked,
             changed |-> entry[q.user][q.asked], seen |-> Absent] \in Shapes
    <3>1. req[r].asked \in Directories
      BY <2>1 DEF LdapRequest
    <3>2. entry[req[r].user][req[r].asked] # Absent =>
              /\ entry[req[r].user][req[r].asked] \in Nat
              /\ entry[req[r].user][req[r].asked] <= now
      BY <2>1, <3>1 DEF AccountsInv, AccountsTypeOK
    <3>3. QED
      BY <2>1, <3>1, <3>2 DEF Shapes, LdapRequest, FoundRequest
  <2>7. Fits
    <3>1. CASE Reject(r)
      BY <1>6, <2>1, <2>2, <2>4, <3>1 DEF store
    <3>2. CASE ~Reject(r)
      BY <1>1, <1>10, <2>4, <2>5, <2>6, <3>2 DEF Directory
    <3>3. QED
      BY <3>1, <3>2
  <2>8. QED
    BY <2>2, <2>3, <2>4, <2>7, StepKeeps DEF store, Fits, AccountsInv, AccountsTypeOK
<1>11. CASE DirectoryFails(r)
  <2>1. req[r] \in LdapRequest /\ (req[r].counts => Exists(req[r].user)) /\ req[r].user \in Users
    BY <1>8, <1>11, ShapeAt DEF DirectoryFails, LdapRequest
  <2>2. QED
    BY <1>4, <1>6, <1>7, <1>11, <2>1 DEF DirectoryFails, store
<1>12. CASE FindAccount(r)
  <2>1. /\ req[r] \in FoundRequest /\ req[r].user \in Users
        /\ req[r].counts => Exists(req[r].user)
        /\ req[r].changed <= now
    BY <1>8, <1>12, ShapeAt DEF FindAccount, FoundRequest
  <2>2. ASSUME DirectoryMatches(req[r].user, req[r].from)
        PROVE  [req[r] EXCEPT !.at = "save", !.seen = BindingOf(req[r].user)] \in Shapes
    <3>1. BindingOf(req[r].user) \in Binding \cup {Absent}
      BY <2>1 DEF BindingOf, Exists, Binding, AccountsInv, AccountsTypeOK, Account
    <3>2. BindingOf(req[r].user) # Absent =>
              /\ Exists(req[r].user)
              /\ BindingOf(req[r].user).dir \in {Absent, req[r].from}
              /\ BindingOf(req[r].user).changed <= now
      BY <2>1, <2>2 DEF DirectoryMatches, BindingOf, AccountsInv
    <3>3. PICK b \in Binding \cup {Absent} : b = BindingOf(req[r].user)
      BY <3>1
    <3>4. PICK q : q = [req[r] EXCEPT !.at = "save", !.seen = b]
      OBVIOUS
    <3>5. /\ q \in FoundRequest /\ q.seen = b /\ q.user = req[r].user /\ q.counts = req[r].counts
          /\ q.changed = req[r].changed /\ q.from = req[r].from
      BY <2>1, <3>4 DEF FoundRequest
    <3>6. /\ q.counts \/ q.seen # Absent => Exists(q.user)
          /\ q.changed <= now
          /\ q.seen # Absent => q.seen.dir \in {Absent, q.from} /\ q.seen.changed <= now
      <4>1. q.counts => Exists(q.user)
        BY <2>1, <3>5
      <4>2. q.seen # Absent =>
                Exists(q.user) /\ q.seen.dir \in {Absent, q.from} /\ q.seen.changed <= now
        BY <3>2, <3>3, <3>5 DEF Exists
      <4>3. q.changed <= now
        BY <2>1, <3>5
      <4>4. QED
        BY <4>1, <4>2, <4>3
    <3>7. q \in Shapes
      BY <3>5, <3>6 DEF Shapes
    <3>8. QED
      BY <3>3, <3>4, <3>7
  <2>3. QED
    BY <1>1, <1>4, <1>7, <1>12, <2>2 DEF FindAccount
<1>13. CASE SaveAccount(r)
  <2>1. PICK q \in Shapes : q = req[r]
    BY <1>8
  <2>2. /\ q \in FoundRequest /\ q.user \in Users /\ q.from \in Directories /\ q.changed \in Nat
        /\ q.counts \/ q.seen # Absent => Exists(q.user)
        /\ q.changed <= now /\ (q.seen # Absent => q.seen.changed <= now)
    BY <1>13, <2>1, ShapeAt DEF SaveAccount, FoundRequest
  <2>3. PICK u \in Users : u = q.user
    BY <2>2
  <2>4. CASE q.seen = Absent /\ Exists(u)
    <3>1. UNCHANGED <<account, stale, now, entry, otp, late, wrong>>
      BY <1>13, <2>1, <2>3, <2>4 DEF SaveAccount
    <3>2. Reject(r) \/ Finish(r)
      BY <1>13, <2>1, <2>3, <2>4 DEF SaveAccount
    <3>3. Shapes \subseteq Shapes' => Fits
      BY <1>6, <1>7, <2>1, <2>2, <3>1, <3>2
    <3>4. QED
      BY <1>4, <3>1, <3>3 DEF store, history
  <2>5. CASE ~(q.seen = Absent /\ Exists(u))
    <3>1. PICK row : row = IF q.seen = Absent
                           THEN [Blank EXCEPT !.type = "INTERNAL", !.dir = q.from,
                                              !.changed = q.changed]
                           ELSE [account[u] EXCEPT !.dir = q.from, !.changed =
                                   LatestPasswordChange(q.seen.changed, q.changed)]
      OBVIOUS
    <3>2. row \in Account /\ row.failed <= MaxAttempts /\ row.changed <= now
      <4>1. CASE q.seen = Absent
        <5>1. Blank \in Account /\ Blank.failed = 0
          BY DEF Blank, Account, Types
        <5>2. row = [Blank EXCEPT !.type = "INTERNAL", !.dir = q.from, !.changed = q.changed]
          BY <3>1, <4>1
        <5>3. row \in Account /\ row.failed = 0 /\ row.changed = q.changed
          BY <2>2, <5>1, <5>2 DEF Account, Types
        <5>4. QED
          BY <2>2, <5>3, AccountsBoundsAssumption
      <4>2. CASE q.seen # Absent
        <5>1. /\ account[u] \in Account /\ account[u].failed <= MaxAttempts
              /\ q.seen \in Binding /\ q.seen.changed \in Nat /\ q.seen.changed <= now
          BY <2>1, <2>2, <2>3, <4>2, ShapeAt DEF AccountsInv, AccountsTypeOK, Exists, FoundRequest, Binding
        <5>2. PICK date : date = LatestPasswordChange(q.seen.changed, q.changed)
          OBVIOUS
        <5>3. date \in Nat /\ date <= now
          BY <2>2, <5>1, <5>2 DEF LatestPasswordChange
        <5>4. row = [account[u] EXCEPT !.dir = q.from, !.changed = date]
          BY <3>1, <4>2, <5>2
        <5>5. row \in Account /\ row.failed = account[u].failed /\ row.changed = date
          BY <2>2, <5>1, <5>3, <5>4 DEF Account
        <5>6. QED
          BY <5>1, <5>3, <5>5
      <4>3. QED
        BY <4>1, <4>2
    <3>3. /\ account' = [account EXCEPT ![u] = row]
          /\ Continue(r, [at |-> "reset", user |-> u, counts |-> q.counts])
          /\ UNCHANGED <<now, entry, otp, late, wrong>> /\ stale' \subseteq Users
      BY <1>13, <2>1, <2>3, <2>5, <3>1 DEF SaveAccount, AccountsInv, AccountsTypeOK
    <3>4. RowStep
      BY <3>2, <3>3, WriteRow
    <3>5. account'[u] # Absent
      BY <3>2, <3>3, AccountsAbsentAssumption DEF AccountsInv, AccountsTypeOK
    <3>6. [at |-> "reset", user |-> u, counts |-> q.counts] \in Shapes'
      <4>1. q.counts \in BOOLEAN
        BY <1>13, <2>1, ShapeAt DEF SaveAccount, FoundRequest
      <4>2. QED
        BY <3>5, <4>1 DEF Shapes, ResetRequest, Exists
    <3>7. Shapes \subseteq Shapes' => Fits
      BY <1>1, <3>3, <3>6
    <3>8. QED
      BY <1>3, <3>3, <3>4, <3>7
  <2>6. QED
    BY <2>4, <2>5
<1>14. ASSUME NEW u \in Users, Exists(u), NEW failed \in Nat, NEW until \in Nat, failed <= MaxAttempts,
              account' = [account EXCEPT ![u].failed = failed, ![u].until = until]
       PROVE  RowStep
  <2>1. PICK row : row = [account[u] EXCEPT !.failed = failed, !.until = until]
    OBVIOUS
  <2>2. account[u] \in Account /\ account[u].changed <= now
    BY <1>14 DEF AccountsInv, AccountsTypeOK, Exists
  <2>3. row \in Account /\ row.failed = failed /\ row.changed = account[u].changed
    BY <1>14, <2>1, <2>2 DEF Account
  <2>4. account' = [account EXCEPT ![u] = row]
    BY <1>14, <2>1
  <2>5. QED
    BY <1>14, <2>2, <2>3, <2>4, WriteRow
<1>15. ASSUME req[r].at \in {"retype", "record", "lock", "reset", "otp_set", "new_password", "otp_del"}
       PROVE  req[r].user \in Users /\ Exists(req[r].user)
  BY <1>8, <1>15, ShapeAt DEF UserRequest, ResetRequest
<1>16. MaxAttempts \in Nat \ {0} /\ LockTime \in Nat /\ now \in Nat
  BY AccountsBoundsAssumption DEF AccountsInv, AccountsTypeOK
<1>17. CASE ResetAttempts(r) \/ ResetPassword(r)
  <2>1. PICK u \in Users : u = req[r].user /\ Exists(u)
    BY <1>15, <1>17 DEF ResetAttempts, ResetPassword
  <2>2. account' = [account EXCEPT ![u].failed = 0, ![u].until = 0]
    BY <1>17, <2>1 DEF ResetAttempts, ResetPassword
  <2>3. RowStep
    <3>1. 0 \in Nat /\ 0 <= MaxAttempts
      BY <1>16
    <3>2. QED
      BY <1>14, <2>1, <2>2, <3>1
  <2>4. /\ UNCHANGED <<now, entry, otp, stale>>
        /\ late' \in [Users -> Nat] /\ wrong' \in [Users -> Nat]
    <3>1. UNCHANGED <<now, entry, otp, stale>> /\ Cleared(u)
      BY <1>17, <2>1 DEF ResetAttempts, ResetPassword
    <3>2. QED
      BY <3>1 DEF Cleared, AccountsInv, AccountsTypeOK
  <2>5. Shapes \subseteq Shapes'
    BY <2>3, <2>4, RowKeeps
  <2>6. [at |-> "otp_del", user |-> u] \in Shapes'
    BY <2>1, <2>5 DEF Shapes, UserRequest
  <2>7. Fits
    BY <1>1, <1>7, <1>17, <2>1, <2>5, <2>6 DEF ResetAttempts, ResetPassword, Go
  <2>8. QED
    BY <2>3, <2>4, <2>7, StepKeeps DEF Fits, AccountsInv, AccountsTypeOK
<1>18. CASE RecordAttempt(r)
  <2>1. PICK u \in Users : u = req[r].user /\ Exists(u)
    BY <1>15, <1>18 DEF RecordAttempt
  <2>2. account[u] \in Account /\ account[u].failed <= MaxAttempts /\ account[u].changed <= now
    BY <2>1 DEF AccountsInv, AccountsTypeOK, Exists
  <2>3. PICK row : row = [account[u] EXCEPT !.failed = Incremented(account[u].failed)]
    OBVIOUS
  <2>4. account' = [account EXCEPT ![u] = row]
    BY <1>18, <2>1, <2>3 DEF RecordAttempt
  <2>5. Incremented(account[u].failed) \in Nat /\ Incremented(account[u].failed) <= MaxAttempts
    BY <1>16, <2>2 DEF Incremented, Account
  <2>6. row \in Account /\ row.failed <= MaxAttempts /\ row.changed <= now
    BY <2>2, <2>3, <2>5 DEF Account
  <2>7. RowStep /\ UNCHANGED <<now, entry, otp, late, wrong, stale>>
    BY <1>18, <2>4, <2>6, WriteRow DEF RecordAttempt, history
  <2>8. [at |-> "lock", user |-> u] \in Shapes
    BY <2>1 DEF Shapes, UserRequest
  <2>9. Shapes \subseteq Shapes' => Fits
    BY <1>1, <1>7, <1>18, <2>1, <2>8 DEF RecordAttempt, Go
  <2>10. QED
    BY <1>3, <2>7, <2>9 DEF AccountsInv, AccountsTypeOK
<1>19. CASE LockAccount(r)
  <2>1. PICK u \in Users : u = req[r].user /\ Exists(u)
    BY <1>15, <1>19 DEF LockAccount
  <2>2. account[u] \in Account /\ account[u].failed <= MaxAttempts /\ account[u].changed <= now
    BY <2>1 DEF AccountsInv, AccountsTypeOK, Exists
  <2>3. PICK row : row = [account[u] EXCEPT !.until = now + LockTime]
    OBVIOUS
  <2>4. account' = [account EXCEPT ![u] = row]
    BY <1>19, <2>1, <2>3 DEF LockAccount
  <2>5. row \in Account /\ row.failed <= MaxAttempts /\ row.changed <= now
    BY <1>16, <2>2, <2>3 DEF Account
  <2>6. RowStep
    BY <2>4, <2>5, WriteRow
  <2>7. /\ UNCHANGED <<now, entry, otp, stale>>
        /\ late' \in [Users -> Nat] /\ wrong' \in [Users -> Nat]
    BY <1>19, <2>1 DEF LockAccount, AccountsInv, AccountsTypeOK
  <2>8. Fits
    BY <1>7, <1>19, <2>6, <2>7, RowKeeps DEF LockAccount
  <2>9. QED
    BY <2>6, <2>7, <2>8, StepKeeps DEF Fits, AccountsInv, AccountsTypeOK
<1>20. CASE SplpRetype(r)
  <2>1. PICK u \in Users : u = req[r].user /\ Exists(u)
    BY <1>15, <1>20 DEF SplpRetype
  <2>2. account[u] \in Account /\ account[u].failed <= MaxAttempts /\ account[u].changed <= now
    BY <2>1 DEF AccountsInv, AccountsTypeOK, Exists
  <2>3. PICK row : row = [account[u] EXCEPT !.type = "GOVERNMENT"]
    OBVIOUS
  <2>4. account' = [account EXCEPT ![u] = row]
    BY <1>20, <2>1, <2>3 DEF SplpRetype
  <2>5. row \in Account /\ row.failed <= MaxAttempts /\ row.changed <= now
    BY <2>2, <2>3 DEF Account, Types
  <2>6. RowStep /\ UNCHANGED <<now, entry, otp, late, wrong, stale>>
    BY <1>20, <2>4, <2>5, WriteRow DEF SplpRetype, history
  <2>7. QED
    BY <1>3, <1>7, <1>20, <2>6 DEF SplpRetype, AccountsInv, AccountsTypeOK
<1>21. CASE CreateAccount(r)
  <2>1. req[r] \in CreateRequest
    BY <1>8, <1>21, ShapeAt DEF CreateAccount
  <2>2. PICK u \in Users : u = req[r].user
    BY <2>1 DEF CreateRequest
  <2>3. PICK row : row = [Blank EXCEPT !.type = req[r].type, !.local = req[r].local]
    OBVIOUS
  <2>4. row \in Account /\ row.failed <= MaxAttempts /\ row.changed <= now
    <3>1. Blank \in Account /\ Blank.failed = 0 /\ Blank.changed = 0
      BY DEF Blank, Account, Types
    <3>2. req[r].type \in Types /\ req[r].local \in BOOLEAN
      BY <2>1 DEF CreateRequest
    <3>3. row \in Account /\ row.failed = 0 /\ row.changed = 0
      BY <2>3, <3>1, <3>2 DEF Account
    <3>4. QED
      BY <1>16, <3>3
  <2>5. account' = account \/ account' = [account EXCEPT ![u] = row]
    BY <1>21, <2>2, <2>3 DEF CreateAccount
  <2>6. RowStep /\ UNCHANGED <<now, entry, otp, late, wrong, stale>>
    BY <1>21, <2>4, <2>5, WriteRow DEF CreateAccount, history, RowStep
  <2>7. QED
    BY <1>3, <1>7, <1>21, <2>6 DEF CreateAccount, AccountsInv, AccountsTypeOK
<1>22. CASE ResetDone(r) \/ \E k \in Otps : ForgotSet(r, k)
  <2>1. PICK u \in Users : u = req[r].user /\ Exists(u)
    BY <1>15, <1>22 DEF ResetDone, ForgotSet
  <2>2. PICK v \in Otps \cup {Absent} : otp' = [otp EXCEPT ![u] = v]
    BY <1>22, <2>1 DEF ResetDone, ForgotSet
  <2>3. /\ otp' \in [Users -> Otps \cup {Absent}]
        /\ \A w \in Users : otp'[w] # Absent => Exists(w)
    BY <2>1, <2>2 DEF AccountsInv, AccountsTypeOK
  <2>4. UNCHANGED <<now, account, entry, late, wrong, stale>> /\ Finish(r)
    BY <1>22 DEF ResetDone, ForgotSet, history
  <2>5. RowStep /\ Shapes \subseteq Shapes'
    BY <2>4, RowKeeps DEF RowStep
  <2>6. QED
    BY <1>7, <2>3, <2>4, <2>5, StepKeeps DEF Fits, AccountsInv, AccountsTypeOK
<1>23. CASE MoveWrite(r)
  <2>1. req[r] \in MoveRequest /\ Exists(req[r].user)
    BY <1>8, <1>23, ShapeAt DEF MoveWrite
  <2>2. PICK u \in Users : u = req[r].user /\ Exists(u)
    BY <2>1 DEF MoveRequest
  <2>3. account[u] \in Account /\ account[u].failed <= MaxAttempts /\ account[u].changed <= now
    BY <2>2 DEF AccountsInv, AccountsTypeOK, Exists
  <2>4. PICK row : row = [account[u] EXCEPT !.dir = req[r].to]
    OBVIOUS
  <2>5. account' = [account EXCEPT ![u] = row]
    BY <1>23, <2>2, <2>4 DEF MoveWrite
  <2>6. row \in Account /\ row.failed <= MaxAttempts /\ row.changed <= now
    BY <2>1, <2>3, <2>4 DEF Account, MoveRequest
  <2>7. RowStep /\ UNCHANGED <<now, entry, otp, late, wrong, stale>>
    BY <1>23, <2>5, <2>6, WriteRow DEF MoveWrite
  <2>8. QED
    BY <1>3, <1>7, <1>23, <2>7 DEF MoveWrite, AccountsInv, AccountsTypeOK
<1>24. CASE StoreFails(r)
  <2>1. req[r].user \in Users
    BY <1>8, <1>24, ShapeAt DEF StoreFails, FoundRequest, CreateRequest, UserRequest, ResetRequest, MoveRequest
  <2>2. UNCHANGED <<now, store, late, stale>> /\ wrong' \in [Users -> Nat]
    BY <1>24, <2>1 DEF StoreFails, AccountsInv, AccountsTypeOK
  <2>3. RowStep /\ Shapes \subseteq Shapes'
    BY <2>2, RowKeeps DEF RowStep, store
  <2>4. Fits
    <3>1. CASE req[r].at \in {"find", "save", "reset"} /\ Reject(r)
      BY <1>6, <1>8, <2>1, <2>2, <2>3, <3>1, ShapeAt DEF store
    <3>2. CASE Finish(r)
      BY <1>7, <2>3, <3>2
    <3>3. QED
      BY <1>24, <3>1, <3>2 DEF StoreFails
  <2>5. QED
    BY <2>2, <2>3, <2>4, StepKeeps DEF Fits, store, AccountsInv, AccountsTypeOK
<1>25. QED
  BY <1>10, <1>11, <1>12, <1>13, <1>17, <1>18, <1>19, <1>20, <1>21, <1>22, <1>23, <1>24 DEF Resume

\* Time, the directories and expiring codes.
LEMMA InvWorld ==
    ASSUME AccountsInv, World \/ UNCHANGED vars
    PROVE  AccountsInv'
<1>1. ASSUME UNCHANGED <<entry, req, history>>, RowStep, now' \in {now, now + 1},
             otp' \in [Users -> Otps \cup {Absent}],
             \A u \in Users : otp'[u] # Absent => otp[u] # Absent
      PROVE  AccountsInv'
  <2>1. req' \in [Requests -> Shapes']
    BY <1>1, RowKeeps DEF AccountsInv
  <2>2. QED
    BY <1>1, <2>1, StepKeeps DEF AccountsInv, AccountsTypeOK, history
<1>2. ASSUME NEW u \in Users, OtpExpires(u)
      PROVE  AccountsInv'
  BY <1>1, <1>2 DEF OtpExpires, RowStep, AccountsInv, AccountsTypeOK
<1>3. CASE Tick \/ UNCHANGED vars
  BY <1>1, <1>3 DEF Tick, vars, store, RowStep, AccountsInv, AccountsTypeOK
<1>4. ASSUME UNCHANGED <<now, otp, req, history>>, RowStep, NEW u \in Users, NEW d \in Directories,
             NEW date \in {now, Absent}, entry' = [entry EXCEPT ![u][d] = date]
      PROVE  AccountsInv'
  <2>1. /\ account' \in [Users -> Account \cup {Absent}] /\ Shapes \subseteq Shapes'
        /\ \A w \in Users : Exists(w) => account'[w] # Absent
        /\ \A w \in Users : account'[w] # Absent =>
               account'[w].failed <= MaxAttempts /\ account'[w].changed <= now'
    BY <1>4, RowKeeps
  <2>2. now \in Nat
    BY DEF AccountsInv, AccountsTypeOK
  <2>3. entry' \in [Users -> [Directories -> Nat \cup {Absent}]]
    BY <1>4, <2>2 DEF AccountsInv, AccountsTypeOK
  <2>4. ASSUME NEW w \in Users, NEW e \in Directories, entry'[w][e] # Absent
        PROVE  entry'[w][e] <= now'
    <3>1. entry'[w][e] \in {entry[w][e], now}
      BY <1>4, <2>4 DEF AccountsInv, AccountsTypeOK
    <3>2. QED
      BY <1>4, <2>2, <2>4, <3>1 DEF AccountsInv
  <2>5. AccountsTypeOK'
    BY <1>4, <2>1, <2>3 DEF AccountsInv, AccountsTypeOK, history
  <2>6. QED
    BY <1>4, <2>1, <2>4, <2>5 DEF AccountsInv, Exists
<1>5. ASSUME NEW u \in Users, PasswordChanged(u)
      PROVE  AccountsInv'
  <2>1. PICK d \in Directories : d = BoundTo(u)
    BY <1>5 DEF PasswordChanged, BoundTo, Exists, Directories, AccountsInv, AccountsTypeOK, Account
  <2>2. account[u] \in Account /\ account[u].failed <= MaxAttempts /\ now \in Nat
    BY <1>5 DEF PasswordChanged, AccountsInv, AccountsTypeOK, Exists
  <2>3. PICK row : row = [account[u] EXCEPT !.changed = now]
    OBVIOUS
  <2>4. account' = [account EXCEPT ![u] = row]
    BY <1>5, <2>3 DEF PasswordChanged
  <2>5. row \in Account /\ row.failed <= MaxAttempts /\ row.changed <= now
    BY <2>2, <2>3 DEF Account
  <2>6. RowStep
    BY <2>4, <2>5, WriteRow
  <2>7. QED
    BY <1>4, <1>5, <2>1, <2>6 DEF PasswordChanged
<1>6. ASSUME NEW u \in Users, NEW d \in Directories, EntryChanges(u, d)
      PROVE  AccountsInv'
  BY <1>4, <1>6 DEF EntryChanges, RowStep
<1>7. QED
  BY <1>2, <1>3, <1>5, <1>6 DEF World

\* The invariant holds of every state the system reaches.
LEMMA AccountsInvariant == Spec => []AccountsInv
<1>1. Init => AccountsInv
  <2>1. SUFFICES ASSUME Init PROVE AccountsInv
    OBVIOUS
  <2>2. Blank \in Account /\ Blank.failed = 0 /\ Blank.changed = 0
    BY DEF Blank, Account, Types
  <2>3. PICK new : new = [Blank EXCEPT !.type = "INTERNAL"]
    OBVIOUS
  <2>4. new \in Account /\ new.failed = 0 /\ new.changed = 0
    BY <2>2, <2>3 DEF Account, Types
  <2>5. account \in [Users -> {Absent, new}]
    BY <2>1, <2>3 DEF Init
  <2>6. AccountsTypeOK
    BY <2>1, <2>4, <2>5 DEF Init, AccountsTypeOK
  <2>7. \A u \in Users : Exists(u) => account[u].failed <= MaxAttempts /\ account[u].changed <= now
    BY <2>1, <2>4, <2>5, AccountsBoundsAssumption DEF Init, Exists
  <2>8. \A u \in Users, d \in Directories : entry[u][d] # Absent => entry[u][d] <= now
    <3>1. \A u \in Users, d \in Directories : entry[u][d] \in {1, Absent}
      BY <2>1 DEF Init
    <3>2. QED
      BY <2>1, <3>1 DEF Init
  <2>9. QED
    BY <2>1, <2>6, <2>7, <2>8 DEF Init, AccountsInv, Shapes
<1>2. AccountsInv /\ [Next]_vars => AccountsInv'
  BY InvStart, InvResume, InvWorld DEF Next
<1>3. QED
  BY <1>1, <1>2, PTL DEF Spec

\* The types hold of every state the system reaches.
THEOREM AccountsTypesCorrect == Spec => []AccountsTypeOK
<1>1. AccountsInv => AccountsTypeOK
  BY DEF AccountsInv
<1>2. QED
  BY <1>1, AccountsInvariant, PTL

-----------------------------------------------------------------------------
(* The binding and the date of the last change.                            *)

\* Only these steps write the binding or the date of a row that is there.
LEMMA ColumnsWritten ==
    ASSUME AccountsInv, [Next]_vars, NEW u \in Users, Exists(u),
           \/ account'[u].dir # account[u].dir
           \/ account'[u].changed # account[u].changed
    PROVE  \/ PasswordChanged(u)
           \/ \E r \in Requests : req[r].user = u /\ (SaveAccount(r) \/ MoveWrite(r))
<1>1. account[u] \in Account
  BY DEF AccountsInv, AccountsTypeOK, Exists
<1>2. account' # account
  OBVIOUS
<1>3. ASSUME NEW w \in Users, NEW row, account' = [account EXCEPT ![w] = row],
             Exists(w) => row.dir = account[w].dir /\ row.changed = account[w].changed
      PROVE  FALSE
  BY <1>3 DEF AccountsInv, AccountsTypeOK
<1>4. ASSUME NEW r \in Requests, Resume(r)
      PROVE  \/ SaveAccount(r) \/ MoveWrite(r) \/ ResetAttempts(r) \/ ResetPassword(r)
             \/ RecordAttempt(r) \/ LockAccount(r) \/ SplpRetype(r) \/ CreateAccount(r)
  BY <1>2, <1>4 DEF Resume, Directory, DirectoryFails, FindAccount, ForgotSet, ResetDone, StoreFails,
     store
<1>5. ASSUME NEW r \in Requests,
             \/ ResetAttempts(r) \/ ResetPassword(r) \/ RecordAttempt(r) \/ LockAccount(r)
             \/ SplpRetype(r)
      PROVE  FALSE
  <2>1. PICK w \in Users : w = req[r].user /\ account[w] \in Account
    <3>1. req[r] \in UserRequest \cup ResetRequest /\ Exists(req[r].user)
      BY <1>5, ShapeAt DEF AccountsInv, ResetAttempts, ResetPassword, RecordAttempt, LockAccount,
         SplpRetype
    <3>2. QED
      BY <3>1 DEF UserRequest, ResetRequest, Exists, AccountsInv, AccountsTypeOK
  <2>2. ASSUME NEW row, row.dir = account[w].dir, row.changed = account[w].changed,
               account' = [account EXCEPT ![w] = row]
        PROVE  FALSE
    BY <1>3, <2>1, <2>2
  <2>3. CASE ResetAttempts(r) \/ ResetPassword(r)
    <3>1. PICK row : row = [account[w] EXCEPT !.failed = 0, !.until = 0]
      OBVIOUS
    <3>2. account' = [account EXCEPT ![w] = row]
      BY <2>1, <2>3, <3>1 DEF ResetAttempts, ResetPassword
    <3>3. QED
      BY <2>1, <2>2, <3>1, <3>2 DEF Account
  <2>4. CASE RecordAttempt(r)
    <3>1. PICK row : row = [account[w] EXCEPT !.failed = Incremented(account[w].failed)]
      OBVIOUS
    <3>2. account' = [account EXCEPT ![w] = row]
      BY <2>1, <2>4, <3>1 DEF RecordAttempt
    <3>3. QED
      BY <2>1, <2>2, <3>1, <3>2 DEF Account
  <2>5. CASE LockAccount(r)
    <3>1. PICK row : row = [account[w] EXCEPT !.until = now + LockTime]
      OBVIOUS
    <3>2. account' = [account EXCEPT ![w] = row]
      BY <2>1, <2>5, <3>1 DEF LockAccount
    <3>3. QED
      BY <2>1, <2>2, <3>1, <3>2 DEF Account
  <2>6. CASE SplpRetype(r)
    <3>1. PICK row : row = [account[w] EXCEPT !.type = "GOVERNMENT"]
      OBVIOUS
    <3>2. account' = [account EXCEPT ![w] = row]
      BY <2>1, <2>6, <3>1 DEF SplpRetype
    <3>3. QED
      BY <2>1, <2>2, <3>1, <3>2 DEF Account
  <2>7. QED
    BY <1>5, <2>3, <2>4, <2>5, <2>6
<1>6. ASSUME NEW r \in Requests, CreateAccount(r)
      PROVE  FALSE
  <2>1. req[r].user \in Users
    BY <1>6, ShapeAt DEF AccountsInv, CreateAccount, CreateRequest
  <2>2. PICK row : row = [Blank EXCEPT !.type = req[r].type, !.local = req[r].local]
    OBVIOUS
  <2>3. ~Exists(req[r].user) /\ account' = [account EXCEPT ![req[r].user] = row]
    BY <1>2, <1>6, <2>2 DEF CreateAccount
  <2>4. QED
    BY <1>3, <2>1, <2>3
<1>7. ASSUME NEW r \in Requests, SaveAccount(r) \/ MoveWrite(r)
      PROVE  req[r].user = u
  <2>1. PICK row : account' = account \/ account' = [account EXCEPT ![req[r].user] = row]
    BY <1>7 DEF SaveAccount, MoveWrite
  <2>2. QED
    BY <1>2, <2>1 DEF AccountsInv, AccountsTypeOK
<1>8. ASSUME NEW w \in Users, PasswordChanged(w)
      PROVE  w = u
  BY <1>2, <1>8 DEF PasswordChanged, AccountsInv, AccountsTypeOK
<1>9. ASSUME NEW r \in Requests, NEW w \in Users, Start(r, w)
      PROVE  FALSE
  BY <1>2, <1>9 DEF Start, LocalLogin, LdapLogin, SplpLogin, SignUp, ForgotRead, ResetRead,
     MoveDirectory, store
<1>10. QED
  BY <1>2, <1>4, <1>5, <1>6, <1>7, <1>8, <1>9 DEF Next, World, OtpExpires, EntryChanges, Tick, vars,
     store

\* What a login writes, if the row is still the one it read.
LEMMA FaithfulSave ==
    ASSUME AccountsInv, NEW r \in Requests, SaveAccount(r), NEW u \in Users, u = req[r].user,
           Exists(u), u \notin stale'
    PROVE  \/ account' = account
           \/ /\ account[u].dir \in {Absent, account'[u].dir}
              /\ account'[u].changed >= account[u].changed
<1>1. PICK q \in Shapes : q = req[r]
  BY DEF AccountsInv
<1>2. /\ q \in FoundRequest
      /\ q.seen # Absent => q.seen.dir \in {Absent, q.from}
  BY <1>1, ShapeAt DEF SaveAccount
<1>3. CASE q.seen = Absent
  BY <1>1, <1>3 DEF SaveAccount
<1>4. CASE q.seen # Absent
  <2>1. q.seen = [dir |-> account[u].dir, changed |-> account[u].changed]
    BY <1>1, <1>4 DEF SaveAccount, BindingOf
  <2>2. account[u].changed \in Nat /\ q.changed \in Nat /\ account[u] \in Account
    BY <1>2 DEF AccountsInv, AccountsTypeOK, Exists, Account, FoundRequest
  <2>3. account' = [account EXCEPT ![u] = [account[u] EXCEPT !.dir = q.from, !.changed =
                       LatestPasswordChange(q.seen.changed, q.changed)]]
    BY <1>1, <1>4 DEF SaveAccount
  <2>4. /\ account'[u].dir = q.from
        /\ account'[u].changed = LatestPasswordChange(account[u].changed, q.changed)
    BY <2>1, <2>2, <2>3 DEF Account, AccountsInv, AccountsTypeOK
  <2>5. QED
    BY <1>2, <1>4, <2>1, <2>2, <2>4 DEF LatestPasswordChange
<1>5. QED
  BY <1>3, <1>4

\* The binding changes only when an administrator moves the account, unless a
\* login wrote back a row that was no longer the one it read: BindingIsTheAdmins.
THEOREM BindingStays == Spec => BindingIsTheAdmins
<1>1. AccountsInv /\ [Next]_vars =>
        [\A u \in Users \ stale' :
            Exists(u) /\ account[u].dir \notin {Absent, account'[u].dir}
                => \E r \in Requests :
                        req[r] \in MoveRequest /\ req[r].user = u /\ req'[r] = Idle]_vars
  <2> SUFFICES ASSUME AccountsInv, [Next]_vars, NEW u \in Users \ stale', Exists(u),
                      account[u].dir \notin {Absent, account'[u].dir}
               PROVE  \E r \in Requests : req[r] \in MoveRequest /\ req[r].user = u /\ req'[r] = Idle
    OBVIOUS
  <2>1. ~PasswordChanged(u)
    <3>1. account[u] \in Account
      BY DEF AccountsInv, AccountsTypeOK, Exists
    <3>2. QED
      BY <3>1 DEF PasswordChanged, AccountsInv, AccountsTypeOK, Account
  <2>2. PICK r \in Requests : req[r].user = u /\ (SaveAccount(r) \/ MoveWrite(r))
    BY <2>1, ColumnsWritten
  <2>3. ~SaveAccount(r)
    BY <2>2, FaithfulSave
  <2>4. req[r] \in MoveRequest
    BY <2>2, <2>3, ShapeAt DEF MoveWrite, AccountsInv
  <2>5. req'[r] = Idle
    BY <2>2, <2>3 DEF MoveWrite, Finish, Continue, AccountsInv
  <2>6. QED
    BY <2>2, <2>4, <2>5
<1>2. QED
  BY <1>1, AccountsInvariant, PTL DEF Spec, BindingIsTheAdmins

\* The date of the last change only moves forward, with the same exception:
\* ChangeDateOnlyAdvances.
THEOREM DatesAdvance == Spec => ChangeDateOnlyAdvances
<1>1. AccountsInv /\ [Next]_vars =>
        [\A u \in Users \ stale' :
            Exists(u) => account'[u].changed >= account[u].changed]_vars
  <2> SUFFICES ASSUME AccountsInv, [Next]_vars, NEW u \in Users \ stale', Exists(u),
                      ~(account'[u].changed >= account[u].changed)
               PROVE  FALSE
    OBVIOUS
  <2>1. account[u] \in Account /\ account[u].changed \in Nat /\ account[u].changed <= now
    BY DEF AccountsInv, AccountsTypeOK, Exists, Account
  <2>2. account'[u].changed # account[u].changed
    BY <2>1
  <2>3. ~PasswordChanged(u)
    BY <2>1 DEF PasswordChanged, AccountsInv, AccountsTypeOK, Account
  <2>4. PICK r \in Requests : req[r].user = u /\ (SaveAccount(r) \/ MoveWrite(r))
    BY <2>2, <2>3, ColumnsWritten
  <2>5. ~SaveAccount(r)
    BY <2>2, <2>4, FaithfulSave
  <2>6. account' = [account EXCEPT ![u].dir = req[r].to]
    BY <2>4, <2>5 DEF MoveWrite
  <2>7. QED
    BY <2>1, <2>2, <2>6 DEF AccountsInv, AccountsTypeOK, Account
<1>2. QED
  BY <1>1, AccountsInvariant, PTL DEF Spec, ChangeDateOnlyAdvances

-----------------------------------------------------------------------------
(* The lock.                                                               *)

\* The handlers with the account at some control points.
At(u, points) == {r \in Requests : req[r].at \in points /\ req[r].user = u}
Asking(u) == {r \in At(u, {"directory"}) : req[r].counts}
Recording(u) == At(u, {"record"})
Locking(u) == At(u, {"lock"})

\* While the lock lasts nobody whose name finds the row begins to ask, so who
\* asks has asked before it.
LateInv(u) ==
    /\ late[u] < Cardinality(Requests)
    /\ Locked(u) => late[u] + Cardinality(Asking(u)) < Cardinality(Requests)

\* What the counter says of the wrong passwords: once it is at the limit the
\* attempts that got it there are about to lock.
Counted(u) == IF ~Exists(u) THEN 0
              ELSE IF account[u].failed < MaxAttempts THEN account[u].failed ELSE MaxAttempts - 1
GuessInv(u) == wrong[u] <= Counted(u) + Cardinality(Recording(u)) + Cardinality(Locking(u))

BothInv == \A u \in Users : LateInv(u) /\ GuessInv(u)

\* How many handlers are at some control points.
LEMMA Sizes ==
    ASSUME NEW u, NEW points
    PROVE  /\ IsFiniteSet(At(u, points)) /\ Cardinality(At(u, points)) \in Nat
           /\ Cardinality(At(u, points)) <= Cardinality(Requests)
           /\ Cardinality(Requests) \in Nat
<1>1. At(u, points) \in SUBSET Requests
  BY DEF At
<1>2. QED
  BY <1>1, FS_Subset, FS_CardinalityType, AccountsRequestsAssumption

\* The same after a step.
LEMMA SizesPrimed ==
    ASSUME NEW u, NEW points
    PROVE  /\ IsFiniteSet(At(u, points)') /\ Cardinality(At(u, points)') \in Nat
           /\ Cardinality(At(u, points)') <= Cardinality(Requests)
<1>1. At(u, points)' \in SUBSET Requests
  BY DEF At
<1>2. QED
  BY <1>1, FS_Subset, FS_CardinalityType, AccountsRequestsAssumption

\* Among them, those whose typed name found the row, before and after a step.
LEMMA AskingSizes ==
    ASSUME NEW u
    PROVE  /\ IsFiniteSet(Asking(u)) /\ Cardinality(Asking(u)) \in Nat
           /\ IsFiniteSet(Asking(u)') /\ Cardinality(Asking(u)') \in Nat
<1>1. Asking(u) \in SUBSET Requests /\ Asking(u)' \in SUBSET Requests
  BY DEF Asking, At
<1>2. QED
  BY <1>1, FS_Subset, FS_CardinalityType, AccountsRequestsAssumption

\* A handler that is elsewhere leaves room for one more.
LEMMA RoomBesides ==
    ASSUME NEW u, NEW r \in Requests, r \notin Asking(u)
    PROVE  Cardinality(Asking(u)) < Cardinality(Requests)
<1>1. /\ Asking(u) \in SUBSET (Requests \ {r})
      /\ IsFiniteSet(Requests \ {r})
      /\ Cardinality(Requests \ {r}) = Cardinality(Requests) - 1
  BY FS_RemoveElement, AccountsRequestsAssumption DEF Asking, At
<1>2. Cardinality(Asking(u)) <= Cardinality(Requests \ {r})
  BY <1>1, FS_Subset
<1>3. QED
  BY <1>1, <1>2, AskingSizes, FS_CardinalityType, AccountsRequestsAssumption

\* The counter accounts for less than the limit.
LEMMA CountedType ==
    ASSUME AccountsInv, NEW u \in Users
    PROVE  Counted(u) \in Nat /\ Counted(u) < MaxAttempts
BY AccountsBoundsAssumption DEF Counted, AccountsInv, AccountsTypeOK, Exists, Account

\* Steps that keep the late count of u.
LEMMA LateCalm ==
    ASSUME AccountsInv, AccountsInv', NEW u \in Users, LateInv(u), late'[u] = late[u],
           Locked(u)' => Locked(u) /\ Asking(u)' \subseteq Asking(u)
    PROVE  LateInv(u)'
<1>1. late[u] \in Nat
  BY DEF AccountsInv, AccountsTypeOK
<1>2. Locked(u)' => Cardinality(Asking(u)') <= Cardinality(Asking(u))
  BY AskingSizes, FS_Subset
<1>3. Cardinality(Asking(u)') \in Nat /\ Cardinality(Asking(u)) \in Nat
  BY AskingSizes
<1>4. QED
  BY <1>1, <1>2, <1>3, Sizes DEF LateInv

\* Steps that keep the guesses of u.
LEMMA GuessCalm ==
    ASSUME AccountsInv, AccountsInv', NEW u \in Users, GuessInv(u), wrong'[u] = wrong[u],
           Counted(u) <= Counted(u)', Recording(u) \subseteq Recording(u)',
           Locking(u) \subseteq Locking(u)'
    PROVE  GuessInv(u)'
<1>1. wrong[u] \in Nat /\ Counted(u) \in Nat /\ Counted(u)' \in Nat
  <2>1. Counted(u)' \in Nat
    BY AccountsBoundsAssumption DEF Counted, AccountsInv, AccountsTypeOK, Exists, Account
  <2>2. QED
    BY <2>1, CountedType DEF AccountsInv, AccountsTypeOK
<1>2. /\ Cardinality(Recording(u)) <= Cardinality(Recording(u)')
      /\ Cardinality(Locking(u)) <= Cardinality(Locking(u)')
  BY SizesPrimed, FS_Subset DEF Recording, Locking
<1>3. /\ Cardinality(Recording(u)) \in Nat /\ Cardinality(Recording(u)') \in Nat
      /\ Cardinality(Locking(u)) \in Nat /\ Cardinality(Locking(u)') \in Nat
  BY Sizes, SizesPrimed DEF Recording, Locking
<1>4. QED
  BY <1>1, <1>2, <1>3 DEF GuessInv

\* A lock that is gone takes its late passwords with it.
LEMMA LateCleared ==
    ASSUME NEW u \in Users, late'[u] = 0, ~Locked(u)'
    PROVE  LateInv(u)'
<1>1. Cardinality(Requests) \in Nat /\ Cardinality(Requests) # 0
  BY FS_CardinalityType, FS_EmptySet, AccountsRequestsAssumption
<1>2. QED
  BY <1>1 DEF LateInv

\* Nothing is left to account for.
LEMMA GuessCleared ==
    ASSUME AccountsInv', NEW u \in Users, wrong'[u] = 0
    PROVE  GuessInv(u)'
<1>1. Counted(u)' \in Nat
  BY AccountsBoundsAssumption DEF Counted, AccountsInv, AccountsTypeOK, Exists, Account
<1>2. Cardinality(Recording(u)') \in Nat /\ Cardinality(Locking(u)') \in Nat
  BY SizesPrimed DEF Recording, Locking
<1>3. QED
  BY <1>1, <1>2 DEF GuessInv

\* A wrong password, and the handler goes to count it.
LEMMA GuessCounted ==
    ASSUME AccountsInv, AccountsInv', NEW u \in Users, GuessInv(u), wrong'[u] = wrong[u] + 1,
           account' = account, NEW r \in Requests, req[r].at \notin {"record", "lock"},
           req'[r].at = "record", req'[r].user = u,
           \A p \in Requests : p # r => req'[p] = req[p]
    PROVE  GuessInv(u)'
<1>1. /\ Recording(u)' = Recording(u) \cup {r} /\ r \notin Recording(u)
      /\ Locking(u)' = Locking(u)
  BY DEF Recording, Locking, At
<1>2. Cardinality(Recording(u)') = Cardinality(Recording(u)) + 1
  BY <1>1, Sizes, FS_AddElement DEF Recording
<1>3. Counted(u)' = Counted(u)
  BY DEF Counted, Exists
<1>4. Cardinality(Recording(u)) \in Nat /\ Cardinality(Locking(u)) \in Nat
  BY Sizes DEF Recording, Locking
<1>5. wrong[u] \in Nat /\ Counted(u) \in Nat
  BY CountedType DEF AccountsInv, AccountsTypeOK
<1>6. QED
  BY <1>1, <1>2, <1>3, <1>4, <1>5 DEF GuessInv

\* One handler moves on, and none begins to ask during the lock.
LEMMA LateMoves ==
    ASSUME AccountsInv, AccountsInv', NEW u \in Users, LateInv(u), late'[u] = late[u],
           Locked(u)' => Locked(u), NEW r \in Requests,
           \A p \in Requests : p # r => req'[p] = req[p],
           r \in Asking(u)' /\ Locked(u) => r \in Asking(u)
    PROVE  LateInv(u)'
<1>1. Locked(u) => Asking(u)' \subseteq Asking(u)
  BY DEF Asking, At
<1>2. QED
  BY <1>1, LateCalm

\* One handler moves on that was not about to count an attempt or to lock.
LEMMA GuessMoves ==
    ASSUME AccountsInv, AccountsInv', NEW u \in Users, GuessInv(u), wrong'[u] = wrong[u],
           Counted(u) <= Counted(u)', NEW r \in Requests,
           \A p \in Requests : p # r => req'[p] = req[p],
           req[r].user = u => req[r].at \notin {"record", "lock"}
    PROVE  GuessInv(u)'
<1>1. Recording(u) \subseteq Recording(u)' /\ Locking(u) \subseteq Locking(u)'
  BY DEF Recording, Locking, At
<1>2. QED
  BY <1>1, GuessCalm

\* A row whose counter and lock are those it had, or a new one.
RowKept(u) ==
    \/ account'[u] = account[u]
    \/ ~Exists(u) /\ account'[u].until = 0
    \/ /\ Exists(u) /\ account'[u] # Absent
       /\ account'[u].failed = account[u].failed /\ account'[u].until = account[u].until

\* Then no lock begins, and the counter accounts for as much.
LEMMA RowCalm ==
    ASSUME AccountsInv, AccountsInv', NEW u \in Users, RowKept(u), now' \in {now, now + 1}
    PROVE  (Locked(u)' => Locked(u)) /\ Counted(u) <= Counted(u)'
<1>1. now \in Nat /\ (Exists(u) => account[u] \in Account)
      /\ (Exists(u)' => account'[u] \in Account)
  BY DEF AccountsInv, AccountsTypeOK, Exists
<1>2. Exists(u) => Exists(u)'
  BY DEF RowKept, Exists
<1>3. Locked(u)' => Locked(u)
  BY <1>1, <1>2 DEF RowKept, Locked, Exists, Account
<1>4. Counted(u) \in Nat /\ Counted(u)' \in Nat
  BY <1>1, AccountsBoundsAssumption DEF Counted, Account
<1>5. Exists(u) => Counted(u)' = Counted(u)
  BY <1>1, <1>2 DEF RowKept, Counted, Exists
<1>6. ~Exists(u) => Counted(u) = 0
  BY DEF Counted
<1>7. QED
  BY <1>3, <1>4, <1>5, <1>6

\* The two together, for a step that leaves the histories of u alone.
LEMMA BothMove ==
    ASSUME AccountsInv, AccountsInv', NEW u \in Users, LateInv(u), GuessInv(u),
           late'[u] = late[u], wrong'[u] = wrong[u], RowKept(u), now' \in {now, now + 1},
           NEW r \in Requests, \A p \in Requests : p # r => req'[p] = req[p],
           r \in Asking(u)' /\ Locked(u) => r \in Asking(u),
           req[r].user = u => req[r].at \notin {"record", "lock"}
    PROVE  LateInv(u)' /\ GuessInv(u)'
BY RowCalm, LateMoves, GuessMoves

\* Steps that move no handler.
LEMMA LockWorld ==
    ASSUME AccountsInv, AccountsInv', BothInv, World \/ UNCHANGED vars
    PROVE  BothInv'
<1> SUFFICES ASSUME NEW u \in Users
             PROVE  LateInv(u)' /\ GuessInv(u)'
  BY DEF BothInv
<1>1. LateInv(u) /\ GuessInv(u)
  BY DEF BothInv
<1>2. req' = req /\ late' = late /\ wrong' = wrong /\ now' \in {now, now + 1}
  BY DEF World, OtpExpires, PasswordChanged, EntryChanges, Tick, history, vars
<1>3. RowKept(u)
  <2>1. CASE account' = account
    BY <2>1 DEF RowKept
  <2>2. ASSUME NEW w \in Users, PasswordChanged(w)
        PROVE  RowKept(u)
    <3>1. Exists(w) /\ account[w] \in Account /\ account' = [account EXCEPT ![w].changed = now]
      BY <2>2 DEF PasswordChanged, Exists, AccountsInv, AccountsTypeOK
    <3>2. CASE w = u
      <4>1. account'[u] = [account[u] EXCEPT !.changed = now] /\ account[u] \in Account
        BY <3>1, <3>2 DEF AccountsInv, AccountsTypeOK
      <4>2. /\ account'[u].failed = account[u].failed /\ account'[u].until = account[u].until
            /\ account'[u] \in Account
        BY <4>1 DEF Account, AccountsInv, AccountsTypeOK
      <4>3. QED
        BY <3>1, <3>2, <4>2, AccountsAbsentAssumption DEF RowKept
    <3>3. CASE w # u
      BY <3>1, <3>3 DEF RowKept, AccountsInv, AccountsTypeOK
    <3>4. QED
      BY <3>2, <3>3
  <2>3. QED
    BY <2>1, <2>2 DEF World, OtpExpires, EntryChanges, Tick, vars, store
<1>4. LateInv(u)'
  <2>1. Asking(u)' = Asking(u)
    BY <1>2 DEF Asking, At
  <2>2. QED
    BY <1>1, <1>2, <1>3, <2>1, RowCalm, LateCalm
<1>5. GuessInv(u)'
  <2>1. Recording(u)' = Recording(u) /\ Locking(u)' = Locking(u)
    BY <1>2 DEF Recording, Locking, At
  <2>2. QED
    BY <1>1, <1>2, <1>3, <2>1, RowCalm, GuessCalm
<1>6. QED
  BY <1>4, <1>5

\* Beginning a handler.
LEMMA LockStart ==
    ASSUME AccountsInv, AccountsInv', BothInv, NEW r \in Requests, NEW w \in Users, Start(r, w)
    PROVE  BothInv'
<1> SUFFICES ASSUME NEW u \in Users
             PROVE  LateInv(u)' /\ GuessInv(u)'
  BY DEF BothInv
<1>1. LateInv(u) /\ GuessInv(u)
  BY DEF BothInv
<1>2. /\ account' = account /\ now' = now /\ req[r] = Idle
      /\ \A p \in Requests : p # r => req'[p] = req[p]
  BY DEF Start, LocalLogin, LdapLogin, SplpLogin, SignUp, ForgotRead, ResetRead, MoveDirectory, store,
     Continue, AccountsInv
<1>3. req[r].at = "idle" /\ RowKept(u)
  BY <1>2 DEF Idle, RowKept
<1>4. CASE late'[u] = late[u] /\ wrong'[u] = wrong[u]
  <2>1. req'[r].at = "directory" => (req'[r].counts => ~Locked(w)) /\ req'[r].user = w
    BY DEF Start, LocalLogin, LdapLogin, SplpLogin, SignUp, ForgotRead, ResetRead, MoveDirectory,
       Continue, AccountsInv
  <2>2. r \in Asking(u)' => ~Locked(u)
    BY <2>1 DEF Asking, At
  <2>3. QED
    BY <1>1, <1>2, <1>3, <1>4, <2>2, BothMove
<1>5. CASE ~(late'[u] = late[u] /\ wrong'[u] = wrong[u])
  <2>1. LocalLogin(r, w, FALSE)
    BY <1>5 DEF Start, LocalLogin, LdapLogin, SplpLogin, SignUp, ForgotRead, ResetRead, MoveDirectory,
       history
  <2>2. u = w
    BY <1>5, <2>1 DEF LocalLogin, CountWrong, AccountsInv, AccountsTypeOK
  <2>3. ~Locked(u) /\ late'[u] = late[u] /\ wrong'[u] = wrong[u] + 1
    BY <2>1, <2>2 DEF LocalLogin, CountWrong, AccountsInv, AccountsTypeOK
  <2>4. req'[r].at = "record" /\ req'[r].user = u
    BY <2>1, <2>2 DEF LocalLogin, Continue, AccountsInv
  <2>5. LateInv(u)'
    <3>1. r \notin Asking(u)'
      BY <2>4 DEF Asking, At
    <3>2. QED
      BY <1>1, <1>2, <1>3, <2>3, <3>1, RowCalm, LateMoves
  <2>6. GuessInv(u)'
    BY <1>1, <1>2, <1>3, <2>3, <2>4, GuessCounted
  <2>7. QED
    BY <2>5, <2>6
<1>6. QED
  BY <1>4, <1>5

\* Resuming one.
LEMMA LockResume ==
    ASSUME AccountsInv, AccountsInv', BothInv, NEW r \in Requests, Resume(r)
    PROVE  BothInv'
<1> SUFFICES ASSUME NEW u \in Users
             PROVE  LateInv(u)' /\ GuessInv(u)'
  BY DEF BothInv
<1> DEFINE Other == \A p \in Requests : p # r => req'[p] = req[p]
           Stays == r \in Asking(u)' => r \in Asking(u)
<1>1. LateInv(u) /\ GuessInv(u)
  BY DEF BothInv
<1>2. Other /\ now' = now
  BY DEF Resume, Directory, DirectoryFails, FindAccount, SaveAccount, ResetAttempts, RecordAttempt,
     LockAccount, SplpRetype, CreateAccount, ForgotSet, ResetPassword, ResetDone, MoveWrite,
     StoreFails, Reject, Finish, Go, Continue, AccountsInv
<1>3. Stays
  <2>1. CASE Directory(r)
    <3>1. req[r] \in LdapRequest
      BY <2>1, ShapeAt DEF Directory, AccountsInv
    <3>2. PICK moved : moved = [req[r] EXCEPT !.asked = "SECONDARY"]
      OBVIOUS
    <3>3. moved.user = req[r].user /\ moved.counts = req[r].counts
      BY <3>1, <3>2 DEF LdapRequest
    <3>4. req'[r] = moved \/ req'[r].at # "directory"
      BY <2>1, <3>2 DEF Directory, Reject, Finish, Go, Continue, Idle, AccountsInv
    <3>5. QED
      BY <2>1, <3>3, <3>4 DEF Directory, Asking, At
  <2>2. CASE FindAccount(r)
    <3>1. req[r] \in FoundRequest
      BY <2>2, ShapeAt DEF FindAccount, AccountsInv
    <3>2. PICK moved : moved = [req[r] EXCEPT !.at = "save", !.seen = BindingOf(req[r].user)]
      OBVIOUS
    <3>3. moved.at = "save"
      BY <3>1, <3>2 DEF FoundRequest
    <3>4. req'[r] \in {moved, Idle}
      BY <2>2, <3>2 DEF FindAccount, Finish, Continue, AccountsInv
    <3>5. QED
      BY <3>3, <3>4 DEF Idle, Asking, At
  <2>3. CASE ~Directory(r) /\ ~FindAccount(r)
    <3>1. req'[r].at # "directory"
      BY <2>3 DEF Resume, DirectoryFails, SaveAccount, ResetAttempts, RecordAttempt,
         LockAccount, SplpRetype, CreateAccount, ForgotSet, ResetPassword, ResetDone, MoveWrite,
         StoreFails, Reject, Finish, Go, Continue, Idle, AccountsInv
    <3>2. QED
      BY <3>1 DEF Asking, At
  <2>4. QED
    BY <2>1, <2>2, <2>3
<1>4. req[r] \in Shapes
  BY DEF AccountsInv
<1> HIDE DEF Other, Stays
\* Nobody else's row, and nobody else's histories.
<1>5. ASSUME req[r].user # u
      PROVE  account'[u] = account[u] /\ late'[u] = late[u] /\ wrong'[u] = wrong[u]
  BY <1>5 DEF Resume, Directory, DirectoryFails, FindAccount, SaveAccount, ResetAttempts,
     RecordAttempt, LockAccount, SplpRetype, CreateAccount, ForgotSet, ResetPassword, ResetDone,
     MoveWrite, StoreFails, CountWrong, Cleared, store, history, AccountsInv, AccountsTypeOK
<1>6. CASE req[r].user # u
  BY <1>1, <1>2, <1>3, <1>5, <1>6, BothMove DEF RowKept, Other, Stays
<1>7. ASSUME req[r].user = u, req[r].at \notin {"record", "lock"}, RowKept(u),
             late'[u] = late[u], wrong'[u] = wrong[u]
      PROVE  LateInv(u)' /\ GuessInv(u)'
  BY <1>1, <1>2, <1>3, <1>7, BothMove DEF Other, Stays
<1>8. ASSUME account' = account, UNCHANGED <<late, wrong>>, req[r].user = u,
             req[r].at \notin {"record", "lock"}
      PROVE  LateInv(u)' /\ GuessInv(u)'
  BY <1>7, <1>8 DEF RowKept
<1>9. CASE req[r].user = u /\ Directory(r)
  <2>1. account' = account /\ req[r].at = "directory"
    BY <1>9 DEF Directory, store
  <2>2. CASE UNCHANGED <<late, wrong>>
    BY <1>8, <1>9, <2>1, <2>2
  <2>3. CASE ~UNCHANGED <<late, wrong>>
    <3>1. CountWrong(u) /\ req'[r] = [at |-> "record", user |-> u]
      BY <1>9, <2>3 DEF Directory, Reject, Go, Continue, history, AccountsInv
    <3>2. wrong'[u] = wrong[u] + 1 /\ late'[u] = IF Locked(u) THEN late[u] + 1 ELSE late[u]
      BY <3>1 DEF CountWrong, AccountsInv, AccountsTypeOK
    <3>3. GuessInv(u)'
      BY <1>1, <1>2, <2>1, <3>1, <3>2, GuessCounted DEF Other
    <3>4. CASE ~Locked(u)
      <4>1. RowKept(u) /\ req'[r].at # "directory"
        BY <2>1, <3>1 DEF RowKept
      <4>2. LateInv(u)'
        BY <1>1, <1>2, <3>2, <3>4, <4>1, RowCalm, LateMoves DEF Other
      <4>3. QED
        BY <3>3, <4>2
    <3>5. CASE Locked(u)
      <4>1. r \in Asking(u) /\ Asking(u)' = Asking(u) \ {r}
        <5>1. req[r].counts
          BY <1>9, <2>3 DEF Directory, history
        <5>2. QED
          BY <1>2, <1>9, <2>1, <3>1, <5>1 DEF Asking, At, Other
      <4>2. Cardinality(Asking(u)') = Cardinality(Asking(u)) - 1
        BY <4>1, AskingSizes, FS_RemoveElement
      <4>3. late'[u] + Cardinality(Asking(u)') = late[u] + Cardinality(Asking(u))
        BY <3>2, <3>5, <4>2, AskingSizes DEF AccountsInv, AccountsTypeOK
      <4>4. late'[u] + Cardinality(Asking(u)') < Cardinality(Requests)
        BY <1>1, <3>5, <4>3 DEF LateInv
      <4>5. late'[u] \in Nat /\ Cardinality(Asking(u)') \in Nat /\ Cardinality(Requests) \in Nat
        BY Sizes, AskingSizes DEF AccountsInv, AccountsTypeOK
      <4>6. LateInv(u)'
        BY <4>4, <4>5 DEF LateInv
      <4>7. QED
        BY <3>3, <4>6
    <3>6. QED
      BY <3>4, <3>5
  <2>4. QED
    BY <2>2, <2>3
<1>10. CASE req[r].user = u /\ (DirectoryFails(r) \/ FindAccount(r) \/ (\E k \in Otps : ForgotSet(r, k))
                                  \/ ResetDone(r))
  BY <1>8, <1>10 DEF DirectoryFails, FindAccount, ForgotSet, ResetDone, store, history
<1>11. CASE req[r].user = u /\ (SaveAccount(r) \/ SplpRetype(r) \/ MoveWrite(r) \/ CreateAccount(r))
  <2>1. UNCHANGED <<late, wrong>> /\ req[r].at \notin {"record", "lock"}
    BY <1>11 DEF SaveAccount, SplpRetype, MoveWrite, CreateAccount, history
  <2>2. Exists(u) => account[u] \in Account
    BY DEF Exists, AccountsInv, AccountsTypeOK
  <2>3. RowKept(u)
    <3>1. ASSUME NEW row, row.until = 0, ~Exists(u), account' = [account EXCEPT ![u] = row]
          PROVE  RowKept(u)
      BY <3>1 DEF RowKept, AccountsInv, AccountsTypeOK
    <3>2. ASSUME NEW row \in Account, account' = [account EXCEPT ![u] = row], Exists(u),
                 row.failed = account[u].failed, row.until = account[u].until
          PROVE  RowKept(u)
      BY <3>2, AccountsAbsentAssumption DEF RowKept, AccountsInv, AccountsTypeOK
    <3>3. CASE SaveAccount(r)
      <4>1. PICK q \in Shapes : q = req[r]
        BY <1>4
      <4>2. q \in FoundRequest /\ (q.seen # Absent => Exists(u))
        BY <1>11, <3>3, <4>1, ShapeAt DEF SaveAccount
      <4>3. CASE q.seen = Absent /\ Exists(u)
        BY <1>11, <3>3, <4>1, <4>3 DEF SaveAccount, RowKept
      <4>4. CASE q.seen = Absent /\ ~Exists(u)
        <5>1. PICK row : row = [Blank EXCEPT !.type = "INTERNAL", !.dir = q.from,
                                             !.changed = q.changed]
          OBVIOUS
        <5>2. account' = [account EXCEPT ![u] = row]
          BY <1>11, <3>3, <4>1, <4>4, <5>1 DEF SaveAccount
        <5>3. row.until = 0
          BY <5>1 DEF Blank
        <5>4. QED
          BY <3>1, <4>4, <5>2, <5>3
      <4>5. CASE q.seen # Absent
        <5>1. PICK row : row = [account[u] EXCEPT !.dir = q.from, !.changed =
                                    LatestPasswordChange(q.seen.changed, q.changed)]
          OBVIOUS
        <5>2. account' = [account EXCEPT ![u] = row]
          BY <1>11, <3>3, <4>1, <4>5, <5>1 DEF SaveAccount
        <5>3. row.failed = account[u].failed /\ row.until = account[u].until
          BY <2>2, <4>2, <4>5, <5>1 DEF Account
        <5>4. row \in Account
          <6>1. q.from \in Directories /\ q.changed \in Nat /\ q.seen.changed \in Nat
            BY <4>2, <4>5 DEF FoundRequest, Binding
          <6>2. QED
            BY <2>2, <4>2, <4>5, <5>1, <6>1 DEF Account, LatestPasswordChange
        <5>5. QED
          BY <3>2, <4>2, <4>5, <5>2, <5>3, <5>4
      <4>6. QED
        BY <4>3, <4>4, <4>5
    <3>4. CASE SplpRetype(r) \/ MoveWrite(r)
      <4>1. /\ Exists(u)
            /\ MoveWrite(r) => req[r].to \in Directories
        BY <1>4, <1>11, <3>4, ShapeAt DEF SplpRetype, MoveWrite, MoveRequest
      <4>2. CASE SplpRetype(r)
        <5>1. PICK row : row = [account[u] EXCEPT !.type = "GOVERNMENT"]
          OBVIOUS
        <5>2. account' = [account EXCEPT ![u] = row]
          BY <1>11, <4>2, <5>1 DEF SplpRetype
        <5>3. row \in Account /\ row.failed = account[u].failed /\ row.until = account[u].until
          BY <2>2, <4>1, <5>1 DEF Account, Types
        <5>4. QED
          BY <3>2, <4>1, <5>2, <5>3
      <4>3. CASE MoveWrite(r)
        <5>1. PICK row : row = [account[u] EXCEPT !.dir = req[r].to]
          OBVIOUS
        <5>2. account' = [account EXCEPT ![u] = row]
          BY <1>11, <4>3, <5>1 DEF MoveWrite
        <5>3. row \in Account /\ row.failed = account[u].failed /\ row.until = account[u].until
          BY <2>2, <4>1, <4>3, <5>1 DEF Account
        <5>4. QED
          BY <3>2, <4>1, <5>2, <5>3
      <4>4. QED
        BY <3>4, <4>2, <4>3
    <3>5. CASE CreateAccount(r)
      <4>1. PICK row : row = [Blank EXCEPT !.type = req[r].type, !.local = req[r].local]
        OBVIOUS
      <4>2. row.until = 0
        BY <4>1 DEF Blank
      <4>3. QED
        BY <1>11, <3>1, <3>5, <4>1, <4>2 DEF CreateAccount, RowKept
    <3>6. QED
      BY <1>11, <3>3, <3>4, <3>5
  <2>4. QED
    BY <1>7, <1>11, <2>1, <2>3
<1>12. CASE req[r].user = u /\ (ResetAttempts(r) \/ ResetPassword(r))
  <2>1. late'[u] = 0 /\ wrong'[u] = 0
    BY <1>12 DEF ResetAttempts, ResetPassword, Cleared, AccountsInv, AccountsTypeOK
  <2>2. Exists(u)
    BY <1>4, <1>12, ShapeAt DEF ResetAttempts, ResetPassword
  <2>3. account'[u] = [account[u] EXCEPT !.failed = 0, !.until = 0] /\ account[u] \in Account
    BY <1>12, <2>2 DEF ResetAttempts, ResetPassword, AccountsInv, AccountsTypeOK, Exists
  <2>4. ~Locked(u)'
    BY <1>2, <2>3 DEF Locked, Account, AccountsInv, AccountsTypeOK
  <2>5. QED
    BY <2>1, <2>4, LateCleared, GuessCleared
<1>13. CASE req[r].user = u /\ RecordAttempt(r)
  <2>1. Exists(u) /\ account[u] \in Account /\ account[u].failed <= MaxAttempts
    BY <1>4, <1>13, ShapeAt DEF RecordAttempt, AccountsInv, AccountsTypeOK, Exists
  <2>2. account'[u] = [account[u] EXCEPT !.failed = Incremented(account[u].failed)]
    BY <1>13, <2>1 DEF RecordAttempt, AccountsInv, AccountsTypeOK
  <2>3. /\ account'[u].until = account[u].until /\ account'[u].failed = Incremented(account[u].failed)
        /\ account[u].failed \in Nat
    BY <2>1, <2>2 DEF Account
  <2>4. late'[u] = late[u] /\ wrong'[u] = wrong[u]
    BY <1>13 DEF RecordAttempt, history
  <2>5. req'[r] = IF Incremented(account[u].failed) = MaxAttempts
                  THEN [at |-> "lock", user |-> u] ELSE Idle
    BY <1>13, <2>3 DEF RecordAttempt, Go, Finish, Continue, AccountsInv
  <2>6. LateInv(u)'
    <3>1. Locked(u)' => Locked(u)
      BY <1>2, <2>1, <2>3 DEF Locked
    <3>2. r \notin Asking(u)'
      BY <2>5 DEF Idle, Asking, At
    <3>3. QED
      BY <1>1, <1>2, <2>4, <3>1, <3>2, LateMoves DEF Other
  <2>7. GuessInv(u)'
    <3>1. r \in Recording(u) /\ r \notin Locking(u) /\ Recording(u)' = Recording(u) \ {r}
      BY <1>2, <1>13, <2>5 DEF RecordAttempt, Recording, Locking, At, Other, Idle
    <3>2. Cardinality(Recording(u)') = Cardinality(Recording(u)) - 1
      BY <3>1, Sizes, FS_RemoveElement DEF Recording
    <3>3. Exists(u)' /\ account'[u].failed \in Nat
      BY <2>1, <2>2, <2>3, AccountsAbsentAssumption, AccountsBoundsAssumption DEF Exists, Account,
         Incremented
    <3>4. /\ Cardinality(Recording(u)) \in Nat /\ Cardinality(Locking(u)) \in Nat
          /\ wrong[u] \in Nat /\ MaxAttempts \in Nat \ {0}
      BY Sizes, AccountsBoundsAssumption DEF Recording, Locking, AccountsInv, AccountsTypeOK
    <3>5. CASE Incremented(account[u].failed) = MaxAttempts
      <4>1. Locking(u)' = Locking(u) \cup {r}
        BY <1>2, <1>13, <2>5, <3>5 DEF RecordAttempt, Locking, At, Other
      <4>2. Cardinality(Locking(u)') = Cardinality(Locking(u)) + 1
        BY <3>1, <4>1, Sizes, FS_AddElement DEF Locking
      <4>3. Counted(u) = MaxAttempts - 1 /\ Counted(u)' = MaxAttempts - 1
        BY <2>1, <2>3, <3>3, <3>4, <3>5 DEF Counted, Incremented
      <4>4. QED
        BY <1>1, <2>4, <3>2, <3>4, <4>2, <4>3 DEF GuessInv
    <3>6. CASE Incremented(account[u].failed) # MaxAttempts
      <4>1. Locking(u)' = Locking(u)
        BY <1>2, <1>13, <2>5, <3>6 DEF RecordAttempt, Locking, At, Other, Idle
      <4>2. Counted(u)' = Counted(u) + 1 /\ Counted(u) \in Nat
        BY <2>1, <2>3, <3>3, <3>4, <3>6 DEF Counted, Incremented
      <4>3. QED
        BY <1>1, <2>4, <3>2, <3>4, <4>1, <4>2 DEF GuessInv
    <3>7. QED
      BY <3>5, <3>6
  <2>8. QED
    BY <2>6, <2>7
<1>14. CASE req[r].user = u /\ LockAccount(r)
  <2>1. wrong'[u] = 0 /\ late'[u] = (IF Locked(u) THEN late[u] ELSE 0) /\ req'[r] = Idle
    BY <1>14 DEF LockAccount, Finish, Continue, AccountsInv, AccountsTypeOK
  <2>2. r \notin Asking(u) /\ Asking(u)' = Asking(u)
    BY <1>2, <1>14, <2>1 DEF LockAccount, Asking, At, Other, Idle
  <2>3. Cardinality(Asking(u)) < Cardinality(Requests)
    BY <2>2, RoomBesides
  <2>4. Cardinality(Asking(u)) \in Nat /\ Cardinality(Requests) \in Nat /\ late[u] \in Nat
    BY Sizes, AskingSizes DEF AccountsInv, AccountsTypeOK
  <2>5. LateInv(u)'
    BY <1>1, <2>1, <2>2, <2>3, <2>4 DEF LateInv
  <2>6. QED
    BY <2>1, <2>5, GuessCleared
<1>15. CASE req[r].user = u /\ StoreFails(r)
  <2>1. account' = account /\ late' = late
    BY <1>15 DEF StoreFails, store
  <2>2. CASE req[r].at \notin {"record", "lock"}
    BY <1>8, <1>15, <2>1, <2>2 DEF StoreFails
  <2>3. CASE req[r].at \in {"record", "lock"}
    <3>1. wrong'[u] = 0 /\ req'[r] = Idle
      BY <1>15, <2>3 DEF StoreFails, Finish, Continue, AccountsInv, AccountsTypeOK
    <3>2. RowKept(u) /\ r \notin Asking(u)'
      BY <2>1, <3>1 DEF RowKept, Idle, Asking, At
    <3>3. LateInv(u)'
      BY <1>1, <1>2, <2>1, <3>2, RowCalm, LateMoves DEF Other
    <3>4. QED
      BY <3>1, <3>3, GuessCleared
  <2>4. QED
    BY <2>2, <2>3
<1>16. QED
  BY <1>6, <1>9, <1>10, <1>11, <1>12, <1>13, <1>14, <1>15 DEF Resume

\* Both hold of every state the system reaches.
LEMMA LockInvariant == Spec => []BothInv
<1>1. Init /\ AccountsInv => BothInv
  <2> SUFFICES ASSUME Init, AccountsInv, NEW u \in Users
               PROVE  LateInv(u) /\ GuessInv(u)
    BY DEF BothInv
  <2>1. late[u] = 0 /\ wrong[u] = 0 /\ Asking(u) = {}
    BY DEF Init, Idle, Asking, At
  <2>2. Cardinality(Asking(u)) = 0 /\ Cardinality(Requests) \in Nat /\ Cardinality(Requests) # 0
    BY <2>1, FS_CardinalityType, FS_EmptySet, AccountsRequestsAssumption
  <2>3. LateInv(u)
    BY <2>1, <2>2 DEF LateInv
  <2>4. Counted(u) \in Nat
    BY CountedType
  <2>5. Cardinality(Recording(u)) \in Nat /\ Cardinality(Locking(u)) \in Nat
    BY Sizes DEF Recording, Locking
  <2>6. QED
    BY <2>1, <2>3, <2>4, <2>5 DEF GuessInv
<1>2. AccountsInv /\ AccountsInv' /\ BothInv /\ [Next]_vars => BothInv'
  BY LockStart, LockResume, LockWorld DEF Next
<1>3. QED
  BY <1>1, <1>2, AccountsInvariant, PTL DEF Spec

\* While a lock lasts the directory is asked about no more passwords than
\* there are other handlers: LockHolds.
THEOREM LocksHold == Spec => []LockHolds
<1>1. BothInv => LockHolds
  BY DEF BothInv, LateInv, LockHolds
<1>2. QED
  BY <1>1, LockInvariant, PTL

\* No more wrong passwords than the limit and one for each other handler are
\* tested before the lock, however the increments interleave: GuessesBounded.
THEOREM GuessesStayBounded == Spec => []GuessesBounded
<1>1. AccountsInv /\ BothInv => GuessesBounded
  <2> SUFFICES ASSUME AccountsInv, BothInv, NEW u \in Users
               PROVE  wrong[u] < MaxAttempts + Cardinality(Requests)
    BY DEF GuessesBounded
  <2>1. /\ Recording(u) \cap Locking(u) = {} /\ Recording(u) \cup Locking(u) \subseteq Requests
        /\ IsFiniteSet(Recording(u)) /\ IsFiniteSet(Locking(u))
    BY Sizes DEF Recording, Locking, At
  <2>2. Cardinality(Recording(u) \cup Locking(u)) = Cardinality(Recording(u)) + Cardinality(Locking(u))
    <3>1. Cardinality(Recording(u) \cap Locking(u)) = 0
      BY <2>1, FS_EmptySet
    <3>2. Cardinality(Recording(u)) \in Nat /\ Cardinality(Locking(u)) \in Nat
      BY Sizes DEF Recording, Locking
    <3>3. Cardinality(Recording(u) \cup Locking(u)) =
              Cardinality(Recording(u)) + Cardinality(Locking(u)) - Cardinality(Recording(u) \cap Locking(u))
      BY <2>1, FS_Union
    <3>4. QED
      BY <3>1, <3>2, <3>3
  <2>3. Cardinality(Recording(u) \cup Locking(u)) <= Cardinality(Requests)
    BY <2>1, FS_Subset, AccountsRequestsAssumption
  <2>4. /\ Counted(u) \in Nat /\ Counted(u) < MaxAttempts /\ wrong[u] \in Nat
        /\ Cardinality(Recording(u)) \in Nat /\ Cardinality(Locking(u)) \in Nat
        /\ Cardinality(Requests) \in Nat /\ MaxAttempts \in Nat
    BY CountedType, Sizes, AccountsBoundsAssumption DEF Recording, Locking, AccountsInv, AccountsTypeOK
  <2>5. wrong[u] <= Counted(u) + Cardinality(Recording(u)) + Cardinality(Locking(u))
    BY DEF BothInv, GuessInv
  <2>6. QED
    BY <2>2, <2>3, <2>4, <2>5
<1>2. QED
  BY <1>1, AccountsInvariant, LockInvariant, PTL

=============================================================================
