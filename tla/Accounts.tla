------------------------------ MODULE Accounts ------------------------------
(***************************************************************************)
(* The User rows: how the ways to sign in find, create and rewrite them,   *)
(* the counter of failed attempts and the lock, the directory an account   *)
(* is bound to, the date of the last password change, the reset of a local *)
(* password by OTP, and the administrator's operations.                    *)
(*                                                                         *)
(* Source: services/{user,ldap,splp}.service, config/passport,             *)
(* routes/{auth,user}.routes of packages/auth-service.  An action is a     *)
(* handler's code up to and including its next awaited call; what it read  *)
(* stays in req.  A user is found by the same key in every way in (email,  *)
(* DN, provider id), but for the name typed at the LDAP login, which may   *)
(* be an alias only the directory knows.  Whether the typed password is    *)
(* right is an input.  Tokens, MFA and the revocation after an operation   *)
(* of the administrator are elsewhere.                                     *)
(***************************************************************************)
EXTENDS Integers, FiniteSets

CONSTANTS
    Users,        \* User.email
    SecondaryOn,  \* isSecondaryConfigured()
    MaxAttempts,  \* MAX_FAILED_LOGIN_ATTEMPTS
    LockTime,     \* LOGIN_LOCKOUT_MINUTES
    Otps,         \* randomInt(0, 1_000_000)
    Requests,     \* slots of concurrently running handlers
    MayFail,      \* what may throw: "db", "redis", "directory"
    MaxTime,      \* bound of the clock
    Absent        \* null, no row, no entry, no key

Directories == {"PRIMARY", "SECONDARY"}
Types == {"INTERNAL", "GOVERNMENT", "EXTERNAL"}

\* isActive is UserAccess's.  until is lockedUntil, local whether there is a password hash, dir is
\* ldapDirectory, changed passwordChangedAt; 0 stands for no date.
Account == [type: Types, local: BOOLEAN, failed: Nat, until: Nat,
            dir: Directories \cup {Absent}, changed: Nat]

ASSUME AccountsBoundsAssumption ==
    /\ MaxAttempts \in Nat \ {0} /\ LockTime \in Nat /\ MaxTime \in Nat
    /\ SecondaryOn \in BOOLEAN
ASSUME AccountsRequestsAssumption == IsFiniteSet(Requests) /\ Requests # {}
ASSUME AccountsFailAssumption == MayFail \subseteq {"db", "redis", "directory"}
ASSUME AccountsAbsentAssumption ==
    Absent \notin Account \cup Directories \cup Otps \cup Nat

VARIABLES
    now,      \* the clock; 1 is the first instant
    account,  \* table User
    entry,    \* the directories: zimbraPasswordModifiedTime of each entry
    otp,      \* Redis keys pwreset:<email>
    req,      \* the running handlers
    \* history, read by the properties only
    late,     \* wrong passwords tested by the directory during the lock
    wrong,    \* wrong passwords since the counter was reset, the lock set or a
              \* write of either lost
    stale     \* users whose row was written from a snapshot no longer true

store == <<account, entry, otp>>
history == <<late, wrong, stale>>
vars == <<now, store, req, history>>

-----------------------------------------------------------------------------
(* The shapes a running handler can have.  counts says whether an error    *)
(* counts as a failed attempt: of a row the typed name found, and past the *)
(* bind in the branch of an email; from and changed are the directory's    *)
(* answer; seen is the row that was read.                                  *)

Idle == [at |-> "idle"]
Binding == [dir: Directories \cup {Absent}, changed: Nat]
LdapRequest == [at: {"directory"}, user: Users, via: {"email", "name"},
                counts: BOOLEAN, asked: Directories]
FoundRequest == [at: {"find", "save"}, user: Users, counts: BOOLEAN,
                 from: Directories, changed: Nat, seen: Binding \cup {Absent}]
CreateRequest == [at: {"create"}, user: Users, type: Types, local: BOOLEAN]
UserRequest == [at: {"retype", "record", "lock", "otp_set", "new_password",
                     "otp_del"}, user: Users]
ResetRequest == [at: {"reset"}, user: Users, counts: BOOLEAN]
MoveRequest == [at: {"move"}, user: Users, to: Directories]

AccountsTypeOK ==
    /\ now \in Nat
    /\ account \in [Users -> Account \cup {Absent}]
    /\ entry \in [Users -> [Directories -> Nat \cup {Absent}]]
    /\ otp \in [Users -> Otps \cup {Absent}]
    /\ req \in [Requests -> {Idle} \cup LdapRequest \cup FoundRequest \cup CreateRequest
                                 \cup UserRequest \cup ResetRequest \cup MoveRequest]
    /\ late \in [Users -> Nat]
    /\ wrong \in [Users -> Nat]
    /\ stale \subseteq Users

Blank == [type |-> "EXTERNAL", local |-> FALSE, failed |-> 0,
          until |-> 0, dir |-> Absent, changed |-> 0]

\* A user may have an account from before the second directory, and an entry
\* in any of the directories.
Init ==
    /\ now = 1
    /\ account \in [Users -> {Absent, [Blank EXCEPT !.type = "INTERNAL"]}]
    /\ entry \in [Users -> [Directories -> {1, Absent}]]
    /\ otp = [u \in Users |-> Absent]
    /\ req = [r \in Requests |-> Idle]
    /\ late = [u \in Users |-> 0]
    /\ wrong = [u \in Users |-> 0]
    /\ stale = {}

-----------------------------------------------------------------------------
(* Helpers.                                                                *)

Continue(r, q) == req' = [req EXCEPT ![r] = q]
Finish(r) == Continue(r, Idle)
Go(r, step) == Continue(r, [at |-> step, user |-> req[r].user])

Exists(u) == account[u] # Absent

\* An account of before the second directory counts as PRIMARY's.
BoundTo(u) == IF account[u].dir = Absent THEN "PRIMARY" ELSE account[u].dir

\* What a login reads of the account, to compare and to write back.
BindingOf(u) == IF Exists(u)
                THEN [dir |-> account[u].dir, changed |-> account[u].changed]
                ELSE Absent

\* assertNotLocked
Locked(u) == Exists(u) /\ account[u].until > now

\* Defect for the checks: what the directory says replaces SADA's record.
DirectoryDate(known, fromDirectory) == fromDirectory
\* The directory's date is always there here.
LatestPasswordChange(known, fromDirectory) ==
    IF known > fromDirectory THEN known ELSE fromDirectory

\* A wrong password was evaluated for u.
CountWrong(u) ==
    /\ wrong' = [wrong EXCEPT ![u] = @ + 1]
    /\ late' = IF Locked(u) THEN [late EXCEPT ![u] = @ + 1] ELSE late

\* The counter is kept up to the limit, beyond which it only stays there.
Incremented(n) == IF n < MaxAttempts THEN n + 1 ELSE n

\* The counter and the lock are cleared; so are the histories about them.
Cleared(u) ==
    /\ wrong' = [wrong EXCEPT ![u] = 0]
    /\ late' = [late EXCEPT ![u] = 0]

-----------------------------------------------------------------------------
(* loginWithPassword of an external user: a local password.  An account    *)
(* that is not active is refused when it is right.                         *)

LocalLogin(r, u, right) ==
    /\ req[r] = Idle
    /\ Exists(u) /\ account[u].local /\ ~Locked(u)
    /\ IF right
       THEN /\ Continue(r, [at |-> "reset", user |-> u, counts |-> FALSE])
            /\ UNCHANGED history
       ELSE /\ Continue(r, [at |-> "record", user |-> u])
            /\ CountWrong(u)
            /\ UNCHANGED stale
    /\ UNCHANGED <<now, store>>

-----------------------------------------------------------------------------
(* The LDAP login, by an internal email address or by a bare username.     *)

\* Whether the row of u is found by the typed name.  An alias is not the row's
\* email nor its provider id; only the directory says whose it is.
NameFinds(u) == {Exists(u), FALSE}

\* Defect for the checks: the lock is only looked at in the email branch.
LdapLoginUnchecked(r, u, via, known) ==
    /\ req[r] = Idle
    /\ known /\ via = "email" => ~Locked(u)
    /\ Continue(r, [at |-> "directory", user |-> u, via |-> via,
                    counts |-> known, asked |-> "PRIMARY"])
    /\ UNCHANGED <<now, store, history>>

\* The lock looked at is that of the row the name finds, if it finds one.
LdapLogin(r, u, via, known) ==
    /\ req[r] = Idle
    /\ known => ~Locked(u)
    /\ Continue(r, [at |-> "directory", user |-> u, via |-> via,
                    counts |-> known, asked |-> "PRIMARY"])
    /\ UNCHANGED <<now, store, history>>

\* An error reported as a wrong password, and counted as one or not.
Reject(r) == IF req[r].counts THEN Go(r, "record") ELSE Finish(r)

\* authenticateIn, and authenticateAny's second directory.  The user's own
\* bind may fail for any reason: all are reported as a wrong password.
Directory(r) ==
    LET q == req[r]
        found == entry[q.user][q.asked]
    IN
    /\ q.at = "directory"
    /\ \/ /\ found = Absent /\ q.asked = "PRIMARY" /\ SecondaryOn
          /\ Continue(r, [q EXCEPT !.asked = "SECONDARY"])
          /\ UNCHANGED history
       \/ /\ found = Absent /\ (q.asked = "SECONDARY" \/ ~SecondaryOn)
          /\ Reject(r)
          /\ UNCHANGED history
       \/ /\ found # Absent  \* and the password right
          /\ Continue(r, [at |-> "find", user |-> q.user,
                          counts |-> q.counts /\ q.via = "email", from |-> q.asked,
                          changed |-> found, seen |-> Absent])
          /\ UNCHANGED history
       \/ /\ found # Absent  \* and the password wrong
          /\ Reject(r)
          /\ IF q.counts THEN CountWrong(q.user) ELSE UNCHANGED <<wrong, late>>
          /\ UNCHANGED stale
    /\ UNCHANGED <<now, store>>

\* The directory is out of reach: 503 and nothing is counted.  When only the
\* user's own bind fails, it is.
DirectoryFails(r) ==
    /\ req[r].at = "directory"
    /\ "directory" \in MayFail
    /\ \/ Finish(r)
       \/ /\ entry[req[r].user][req[r].asked] # Absent
          /\ Reject(r)
    /\ UNCHANGED <<now, store, history>>

\* assertDirectoryMatches: a row of no directory yet is bound by this login.
DirectoryMatches(u, found) == Exists(u) => account[u].dir \in {Absent, found}

\* Defect for the checks: the binding is not compared.
FindUnbound(r) ==
    LET q == req[r] IN
    /\ q.at = "find"
    /\ Continue(r, [q EXCEPT !.at = "save", !.seen = BindingOf(q.user)])
    /\ UNCHANGED <<now, store, history>>

\* Found by what the directory answered; a mismatch is refused and not counted.
FindAccount(r) ==
    LET q == req[r] IN
    /\ q.at = "find"
    /\ IF DirectoryMatches(q.user, q.from)
       THEN Continue(r, [q EXCEPT !.at = "save", !.seen = BindingOf(q.user)])
       ELSE Finish(r)
    /\ UNCHANGED <<now, store, history>>

\* Created, or rewritten from the row that was read: the binding and the date
\* of the last change are both written back.  isActive is not looked at.
SaveAccount(r) ==
    LET q == req[r]
        u == q.user
    IN
    /\ q.at = "save"
    /\ IF q.seen = Absent /\ Exists(u)
       THEN \* the unique index on email
            /\ Reject(r)
            /\ UNCHANGED <<account, stale>>
       ELSE /\ account' = [account EXCEPT ![u] =
                    IF q.seen = Absent
                    THEN [Blank EXCEPT !.type = "INTERNAL", !.dir = q.from,
                                       !.changed = q.changed]
                    ELSE [@ EXCEPT !.dir = q.from, !.changed =
                            LatestPasswordChange(q.seen.changed, q.changed)]]
            /\ stale' = IF q.seen = BindingOf(u) THEN stale ELSE stale \cup {u}
            /\ Continue(r, [at |-> "reset", user |-> u, counts |-> q.counts])
    /\ UNCHANGED <<now, entry, otp, late, wrong>>

\* resetFailedAttempts; the gates of MfaLogin follow.
ResetAttempts(r) ==
    LET u == req[r].user IN
    /\ req[r].at = "reset"
    /\ account' = [account EXCEPT ![u].failed = 0, ![u].until = 0]
    /\ Cleared(u)
    /\ Finish(r)
    /\ UNCHANGED <<now, entry, otp, stale>>

\* Defect for the checks: the limit is one attempt further.
RecordAttemptLate(r) ==
    LET u == req[r].user IN
    /\ req[r].at = "record"
    /\ account' = [account EXCEPT ![u].failed = Incremented(@)]
    /\ IF account[u].failed = MaxAttempts THEN Go(r, "lock") ELSE Finish(r)
    /\ UNCHANGED <<now, entry, otp, history>>

\* recordFailedAttempt: the increment is one statement, the lock another.
RecordAttempt(r) ==
    LET u == req[r].user IN
    /\ req[r].at = "record"
    /\ account' = [account EXCEPT ![u].failed = Incremented(@)]
    /\ IF account'[u].failed = MaxAttempts THEN Go(r, "lock") ELSE Finish(r)
    /\ UNCHANGED <<now, entry, otp, history>>

LockAccount(r) ==
    LET u == req[r].user IN
    /\ req[r].at = "lock"
    /\ account' = [account EXCEPT ![u].until = now + LockTime]
    /\ wrong' = [wrong EXCEPT ![u] = 0]
    /\ late' = IF Locked(u) THEN late ELSE [late EXCEPT ![u] = 0]
    /\ Finish(r)
    /\ UNCHANGED <<now, entry, otp, stale>>

-----------------------------------------------------------------------------
(* The other ways in: SPLP, Google and Facebook once the provider has      *)
(* answered, and the registration.  None of them looks at the lock.        *)

\* loginWithSplp: an account found by email becomes a GOVERNMENT account.
SplpLogin(r, u) ==
    /\ req[r] = Idle
    /\ Continue(r, IF Exists(u) THEN [at |-> "retype", user |-> u]
                   ELSE [at |-> "create", user |-> u, type |-> "GOVERNMENT",
                         local |-> FALSE])
    /\ UNCHANGED <<now, store, history>>

SplpRetype(r) ==
    /\ req[r].at = "retype"
    /\ account' = [account EXCEPT ![req[r].user].type = "GOVERNMENT"]
    /\ Finish(r)
    /\ UNCHANGED <<now, entry, otp, history>>

\* The Google and Facebook strategies (an existing account is left alone),
\* and register (an existing account is a conflict).
SignUp(r, u, local) ==
    /\ req[r] = Idle
    /\ ~Exists(u)
    /\ Continue(r, [at |-> "create", user |-> u, type |-> "EXTERNAL", local |-> local])
    /\ UNCHANGED <<now, store, history>>

\* The unique index on email refuses the later of two.
CreateAccount(r) ==
    LET q == req[r] IN
    /\ q.at = "create"
    /\ IF Exists(q.user) THEN UNCHANGED account
       ELSE account' = [account EXCEPT ![q.user] =
                [Blank EXCEPT !.type = q.type, !.local = q.local]]
    /\ Finish(r)
    /\ UNCHANGED <<now, entry, otp, history>>

-----------------------------------------------------------------------------
(* POST /auth/forgot-password and /auth/reset-password                     *)

ForgotRead(r, u) ==
    /\ req[r] = Idle
    /\ Exists(u) /\ account[u].local
    /\ Continue(r, [at |-> "otp_set", user |-> u])
    /\ UNCHANGED <<now, store, history>>

\* A later request replaces the code.
ForgotSet(r, k) ==
    /\ req[r].at = "otp_set"
    /\ otp' = [otp EXCEPT ![req[r].user] = k]
    /\ Finish(r)
    /\ UNCHANGED <<now, account, entry, history>>

ResetRead(r, u, k) ==
    /\ req[r] = Idle
    /\ otp[u] = k
    /\ Continue(r, [at |-> "new_password", user |-> u])
    /\ UNCHANGED <<now, store, history>>

\* resetPassword clears the lock with the password.
ResetPassword(r) ==
    LET u == req[r].user IN
    /\ req[r].at = "new_password"
    /\ account' = [account EXCEPT ![u].failed = 0, ![u].until = 0]
    /\ Cleared(u)
    /\ Go(r, "otp_del")
    /\ UNCHANGED <<now, entry, otp, stale>>

\* Whatever code is there now is deleted.
ResetDone(r) ==
    /\ req[r].at = "otp_del"
    /\ otp' = [otp EXCEPT ![req[r].user] = Absent]
    /\ Finish(r)
    /\ UNCHANGED <<now, account, entry, history>>

OtpExpires(u) ==
    /\ otp[u] # Absent
    /\ otp' = [otp EXCEPT ![u] = Absent]
    /\ UNCHANGED <<now, account, entry, req, history>>

-----------------------------------------------------------------------------
(* The administrator, and the world outside.                               *)

\* moveLdapDirectory
MoveDirectory(r, u, to) ==
    /\ req[r] = Idle
    /\ Exists(u) /\ account[u].type = "INTERNAL"
    /\ to # BoundTo(u)
    /\ to = "SECONDARY" => SecondaryOn
    /\ Continue(r, [at |-> "move", user |-> u, to |-> to])
    /\ UNCHANGED <<now, store, history>>

MoveWrite(r) ==
    LET q == req[r] IN
    /\ q.at = "move"
    /\ account' = [account EXCEPT ![q.user].dir = q.to]
    /\ Finish(r)
    /\ UNCHANGED <<now, entry, otp, late, wrong, stale>>

\* POST /auth/password/change, seen from the row (PasswordChange has it all).
PasswordChanged(u) ==
    /\ Exists(u) /\ account[u].type = "INTERNAL"
    /\ entry[u][BoundTo(u)] # Absent
    /\ entry' = [entry EXCEPT ![u][BoundTo(u)] = now]
    /\ account' = [account EXCEPT ![u].changed = now]
    /\ UNCHANGED <<now, otp, req, history>>

\* A directory's own administration and its webmail.
EntryChanges(u, d) ==
    /\ \E date \in {now, Absent} \ {entry[u][d]} : entry' = [entry EXCEPT ![u][d] = date]
    /\ UNCHANGED <<now, account, otp, req, history>>

Tick ==
    /\ now < MaxTime
    /\ now' = now + 1
    /\ UNCHANGED <<store, req, history>>

\* A call throws.  In the email branch of the login every error after the
\* bind, the database's included, is taken for a wrong password.
StoreFails(r) ==
    LET q == req[r] IN
    /\ \/ "db" \in MayFail /\ q.at \in {"find", "save", "reset", "create", "retype",
                                         "record", "lock", "new_password", "move"}
       \/ "redis" \in MayFail /\ q.at \in {"otp_set", "otp_del"}
    /\ IF q.at \in {"find", "save", "reset"} THEN Reject(r) ELSE Finish(r)
    /\ wrong' = IF q.at \in {"record", "lock"} THEN [wrong EXCEPT ![q.user] = 0] ELSE wrong
    /\ UNCHANGED <<now, store, late, stale>>

Start(r, u) ==
    \/ \E right \in BOOLEAN : LocalLogin(r, u, right)
    \/ \E via \in {"email", "name"}, known \in NameFinds(u) : LdapLogin(r, u, via, known)
    \/ SplpLogin(r, u)
    \/ \E local \in BOOLEAN : SignUp(r, u, local)
    \/ ForgotRead(r, u)
    \/ \E k \in Otps : ResetRead(r, u, k)
    \/ \E d \in Directories : MoveDirectory(r, u, d)

Resume(r) ==
    \/ Directory(r)
    \/ DirectoryFails(r)
    \/ FindAccount(r)
    \/ SaveAccount(r)
    \/ ResetAttempts(r)
    \/ RecordAttempt(r)
    \/ LockAccount(r)
    \/ SplpRetype(r)
    \/ CreateAccount(r)
    \/ \E k \in Otps : ForgotSet(r, k)
    \/ ResetPassword(r)
    \/ ResetDone(r)
    \/ MoveWrite(r)
    \/ StoreFails(r)

World ==
    \/ \E u \in Users :
        \/ OtpExpires(u)
        \/ PasswordChanged(u)
        \/ \E d \in Directories : EntryChanges(u, d)
    \/ Tick

Next == World \/ \E r \in Requests : Resume(r) \/ \E u \in Users : Start(r, u)

Spec == Init /\ [][Next]_vars

-----------------------------------------------------------------------------
(* Properties.                                                             *)

\* A lock holds: while it lasts the directory is asked about no more
\* passwords than there were handlers in flight with one when it was set
\* (user.service 187-192, 304-312: the lock is read before the directory is
\* asked, and set two statements after it answered).  It holds of the names
\* that find the row; an alias meets no lock.
LockHolds == \A u \in Users : late[u] < Cardinality(Requests)

\* No more than MAX_FAILED_LOGIN_ATTEMPTS wrong passwords, and one for each
\* other handler in flight, are tested before the account is locked, however
\* the increments interleave (user.service 34-57), if none was lost to an
\* error of the database.  One typed with an alias is not counted.
GuessesBounded ==
    \A u \in Users : wrong[u] < MaxAttempts + Cardinality(Requests)

\* The directory that binds an account changes only when an administrator
\* moves it (docs/adr/0004), unless a login writes back the binding it read
\* before the move.
BindingIsTheAdmins ==
    [][\A u \in Users \ stale' :
        Exists(u) /\ account[u].dir \notin {Absent, account'[u].dir}
            => \E r \in Requests :
                    req[r] \in MoveRequest /\ req[r].user = u /\ req'[r] = Idle]_vars

\* The date of the last change only moves forward, whatever directory or
\* clock an answer comes from, unless a login writes back the date it read
\* before SADA recorded a change (user.service 66-77).
ChangeDateOnlyAdvances ==
    [][\A u \in Users \ stale' :
        Exists(u) => account'[u].changed >= account[u].changed]_vars

\* "INTERNAL (PANRB employees, authenticate via LDAP), GOVERNMENT (ASN from
\* other agencies, via SPLP SSO)" (CONTEXT.md 19): an account that signs in
\* through LDAP remains INTERNAL.
EmployeesStayInternal ==
    [][\A u \in Users :
        Exists(u) /\ account[u].type = "INTERNAL" => account'[u].type = "INTERNAL"]_vars

=============================================================================
