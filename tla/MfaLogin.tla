------------------------------ MODULE MfaLogin ------------------------------
(***************************************************************************)
(* The second factor of a login: the tickets that stand between a password *)
(* and the tokens, enrolment (setup, enable), verification by TOTP or by a *)
(* backup code, the guess counter, disabling and the administrator's reset.*)
(*                                                                         *)
(* Source: routes/mfa.routes, services/{mfa,login-issuer}.service of       *)
(* packages/auth-service.  An action is a handler's code up to and         *)
(* including its next awaited store call; what it read stays in req.  The  *)
(* password was verified before Login; issueUserLogin is one step here and *)
(* UserAccess's subject.                                                   *)
(***************************************************************************)
EXTENDS Integers, FiniteSets

CONSTANTS
    Users,        \* User.id
    MfaUsers,     \* INTERNAL users, unless MFA_REQUIRED_INTERNAL is 'false'
    Tickets,      \* randomBytes(32)
    Secrets,      \* TOTP secrets
    BackupCodes,  \* randomBytes(5)
    ListSize,     \* BACKUP_CODE_COUNT
    MaxAttempts,  \* MFA_MAX_ATTEMPTS
    Requests,     \* slots of concurrently running handlers
    MayFail,      \* the stores whose calls may throw: "db", "redis"
    Absent,       \* no such key, no secret
    Wrong         \* a code that nothing accepts

\* scopes are those of every login and are left out of the ticket.
Ticket == [kind: {"pending", "setup", "password"}, user: Users]

ASSUME MfaUsersAssumption == MfaUsers \subseteq Users
ASSUME MfaFailAssumption == MayFail \subseteq {"db", "redis"}
ASSUME MfaBoundsAssumption == MaxAttempts \in Nat \ {0} /\ ListSize \in Nat
ASSUME MfaRequestsAssumption == IsFiniteSet(Requests)
ASSUME MfaCodesAssumption ==
    /\ Absent \notin Ticket \cup Secrets \cup BackupCodes \cup {Wrong}
    /\ Wrong \notin Secrets \cup BackupCodes
    /\ Secrets \cap BackupCodes = {}

VARIABLES
    enabled,   \* User.mfaEnabled
    secret,    \* User.mfaSecret, decrypted
    backup,    \* User.mfaBackupCodes, the codes the hashes stand for
    tickets,   \* Redis keys mfa_pending:, mfa_setup: and pwd_change:<ticket>
    attempts,  \* Redis keys <prefix>att:<ticket>
    drawn,     \* random values that have been used
    req,       \* the running handlers
    \* history, read by the properties only
    guesses,   \* wrong codes that were evaluated for a ticket
    retired,   \* secrets replaced or erased; backup codes used or replaced
    confirmed, \* secrets a code was verified against before MFA was enabled
    stale      \* users whose row was written from a snapshot no longer true

store == <<enabled, secret, backup, tickets, attempts, drawn>>
history == <<guesses, retired, confirmed, stale>>
vars == <<store, req, history>>

-----------------------------------------------------------------------------
(* The shapes a running handler can have: the step it is at, and what it   *)
(* has read.  A handler of /auth/mfa/disable has no ticket.                *)

Idle == [at |-> "idle"]
LoginRequest == [at: {"login_ticket"}, user: Users, enabled: BOOLEAN]
PeekedRequest ==
    [at: {"verify_user", "setup_write", "enable_user", "bump", "drop", "spend"},
     user: Users, ticket: Tickets]
ConsumeRequest == [at: {"consume"}, user: Users, ticket: Tickets \cup {Absent},
                   code: BackupCodes, seen: SUBSET BackupCodes]
EnableRequest ==
    [at: {"enable_write"}, user: Users, ticket: Tickets, code: Secrets]
UserRequest == [at: {"disable_write", "gate"}, user: Users]

Request ==
    {Idle} \cup LoginRequest \cup PeekedRequest \cup ConsumeRequest \cup EnableRequest
    \cup UserRequest

MfaTypeOK ==
    /\ enabled \in [Users -> BOOLEAN]
    /\ secret \in [Users -> Secrets \cup {Absent}]
    /\ backup \in [Users -> SUBSET BackupCodes]
    /\ tickets \in [Tickets -> Ticket \cup {Absent}]
    /\ attempts \in [Tickets -> Nat]
    /\ drawn \subseteq Tickets \cup Secrets \cup BackupCodes
    /\ req \in [Requests -> Request]
    /\ guesses \in [Tickets -> Nat]
    /\ retired \subseteq Secrets \cup BackupCodes
    /\ confirmed \subseteq Secrets
    /\ stale \subseteq Users

\* Nobody is enrolled yet.
Init ==
    /\ enabled = [u \in Users |-> FALSE]
    /\ secret = [u \in Users |-> Absent]
    /\ backup = [u \in Users |-> {}]
    /\ tickets = [t \in Tickets |-> Absent]
    /\ attempts = [t \in Tickets |-> 0]
    /\ drawn = {}
    /\ req = [r \in Requests |-> Idle]
    /\ guesses = [t \in Tickets |-> 0]
    /\ retired = {}
    /\ confirmed = {}
    /\ stale = {}

-----------------------------------------------------------------------------
(* Helpers.                                                                *)

Continue(r, q) == req' = [req EXCEPT ![r] = q]
Finish(r) == Continue(r, Idle)

\* peekMfaTicket: the ticket is read, not consumed.
Holds(t, kind) == tickets[t] # Absent /\ tickets[t].kind = kind

\* verifyTotp.  A code stands for the secret it was computed from; nothing
\* remembers that it was presented before.
TotpOk(s, c) == s # Absent /\ c = s

\* The codes a caller can present: of secrets and lists handed out, or wrong.
Presentable == (drawn \cap (Secrets \cup BackupCodes)) \cup {Wrong}

\* deleteMfaTicket: the ticket and its counter.
DeleteTicket(t) ==
    /\ tickets' = [tickets EXCEPT ![t] = Absent]
    /\ attempts' = [attempts EXCEPT ![t] = 0]

\* A row is written on the strength of a snapshot; remembered when the part
\* the handler read has changed since.
WriteRow(u, unchanged) ==
    stale' = IF unchanged THEN stale ELSE stale \cup {u}

-----------------------------------------------------------------------------
(* A password login: maybeRequireMfa, or the password gate at once.        *)

Login(r, u) ==
    /\ req[r] = Idle
    /\ Continue(r, IF u \in MfaUsers
                   THEN [at |-> "login_ticket", user |-> u, enabled |-> enabled[u]]
                   ELSE [at |-> "gate", user |-> u])
    /\ UNCHANGED <<store, history>>

LoginTicket(r, t) ==
    LET q == req[r] IN
    /\ q.at = "login_ticket"
    /\ t \notin drawn
    /\ tickets' = [tickets EXCEPT ![t] =
            [kind |-> IF q.enabled THEN "pending" ELSE "setup", user |-> q.user]]
    /\ drawn' = drawn \cup {t}
    /\ Finish(r)
    /\ UNCHANGED <<enabled, secret, backup, attempts, history>>

\* MFA_PENDING_TTL.  The counter's own 300 seconds start no earlier, so it
\* does not go first; afterwards nothing reads it.
TicketExpires(t) ==
    /\ tickets[t] # Absent
    /\ tickets' = [tickets EXCEPT ![t] = Absent]
    /\ UNCHANGED <<enabled, secret, backup, attempts, drawn, req, history>>

\* maybeRequirePasswordChange on the user the handler read (PasswordExpiry
\* says when): a ticket to change the password, or issueUserLogin.
PasswordGate(r) ==
    LET q == req[r] IN
    /\ q.at = "gate"
    /\ \/ \E t \in Tickets \ drawn :
            /\ tickets' = [tickets EXCEPT ![t] = [kind |-> "password", user |-> q.user]]
            /\ drawn' = drawn \cup {t}
       \/ UNCHANGED <<tickets, drawn>>
    /\ Finish(r)
    /\ UNCHANGED <<enabled, secret, backup, attempts, history>>

-----------------------------------------------------------------------------
(* POST /auth/mfa/verify-login                                             *)

Peek(r, t, kind, at) ==
    /\ req[r] = Idle
    /\ Holds(t, kind)
    /\ Continue(r, [at |-> at, user |-> tickets[t].user, ticket |-> t])
    /\ UNCHANGED <<store, history>>

VerifyPeek(r, t) == Peek(r, t, "pending", "verify_user")

\* A wrong code: evaluated now, counted by Bump.
Guess(r) ==
    /\ guesses' = [guesses EXCEPT ![req[r].ticket] = @ + 1]
    /\ Continue(r, [req[r] EXCEPT !.at = "bump"])

\* Defect for the checks: the list that was read is not kept.
MatchUnread(r, u, c, t) ==
    Continue(r, [at |-> "consume", user |-> u, ticket |-> t, code |-> c])

\* verifyUserCode found c among the codes it read; ticket as in ConsumeRequest.
MatchBackup(r, u, c, t) ==
    Continue(r, [at |-> "consume", user |-> u, ticket |-> t, code |-> c,
                 seen |-> backup[u]])

VerifyUser(r, c) ==
    LET q == req[r]
        u == q.user
    IN
    /\ q.at = "verify_user"
    /\ c \in Presentable
    /\ UNCHANGED <<store, retired, confirmed, stale>>
    /\ \/ /\ ~enabled[u] \/ secret[u] = Absent
          /\ Continue(r, [q EXCEPT !.at = "drop"])
          /\ UNCHANGED guesses
       \/ /\ enabled[u] /\ TotpOk(secret[u], c)
          /\ Continue(r, [q EXCEPT !.at = "spend"])
          /\ UNCHANGED guesses
       \/ /\ enabled[u] /\ secret[u] # Absent /\ c \in backup[u]
          /\ MatchBackup(r, u, c, q.ticket)
          /\ UNCHANGED guesses
       \/ /\ enabled[u] /\ secret[u] # Absent
          /\ ~TotpOk(secret[u], c) /\ c \notin backup[u]
          /\ Guess(r)

\* Defect for the checks: the list is written back with the code still in it.
ConsumeNothing(r) ==
    LET q == req[r] IN
    /\ q.at = "consume"
    /\ backup' = [backup EXCEPT ![q.user] = q.seen]
    /\ retired' = retired \cup {q.code}
    /\ WriteRow(q.user, backup[q.user] = q.seen)
    /\ Continue(r, IF q.ticket = Absent
                   THEN [at |-> "disable_write", user |-> q.user]
                   ELSE [at |-> "spend", user |-> q.user, ticket |-> q.ticket])
    /\ UNCHANGED <<enabled, secret, tickets, attempts, drawn, guesses, confirmed>>

\* The whole list that was read is written back, without the code.
Consume(r) ==
    LET q == req[r] IN
    /\ q.at = "consume"
    /\ backup' = [backup EXCEPT ![q.user] = q.seen \ {q.code}]
    /\ retired' = retired \cup {q.code}
    /\ WriteRow(q.user, backup[q.user] = q.seen)
    /\ Continue(r, IF q.ticket = Absent
                   THEN [at |-> "disable_write", user |-> q.user]
                   ELSE [at |-> "spend", user |-> q.user, ticket |-> q.ticket])
    /\ UNCHANGED <<enabled, secret, tickets, attempts, drawn, guesses, confirmed>>

\* Defect for the checks: the count is compared before it is incremented, and
\* a ticket is given one guess more than it has.
BumpLate(r) ==
    LET q == req[r]
        count == attempts[q.ticket] + 1 IN
    /\ q.at = "bump"
    /\ attempts' = [attempts EXCEPT ![q.ticket] = count]
    /\ Continue(r, IF attempts[q.ticket] >= MaxAttempts
                   THEN [q EXCEPT !.at = "drop"] ELSE Idle)
    /\ UNCHANGED <<enabled, secret, backup, tickets, drawn, history>>

\* bumpMfaAttempts, and what the callers do with the count.
Bump(r) ==
    LET q == req[r]
        count == attempts[q.ticket] + 1 IN
    /\ q.at = "bump"
    /\ attempts' = [attempts EXCEPT ![q.ticket] = count]
    /\ Continue(r, IF count >= MaxAttempts THEN [q EXCEPT !.at = "drop"] ELSE Idle)
    /\ UNCHANGED <<enabled, secret, backup, tickets, drawn, history>>

Drop(r) ==
    /\ req[r].at = "drop"
    /\ DeleteTicket(req[r].ticket)
    /\ Finish(r)
    /\ UNCHANGED <<enabled, secret, backup, drawn, history>>

\* The factor is proved: the ticket goes, then the password gate follows.
Spend(r) ==
    /\ req[r].at = "spend"
    /\ DeleteTicket(req[r].ticket)
    /\ Continue(r, [at |-> "gate", user |-> req[r].user])
    /\ UNCHANGED <<enabled, secret, backup, drawn, history>>

-----------------------------------------------------------------------------
(* POST /auth/mfa/setup and /auth/mfa/enable                               *)

\* The user is read only to see that the account exists.
SetupPeek(r, t) == Peek(r, t, "setup", "setup_write")

SetupWrite(r, x) ==
    LET u == req[r].user IN
    /\ req[r].at = "setup_write"
    /\ x \notin drawn
    /\ secret' = [secret EXCEPT ![u] = x]
    /\ drawn' = drawn \cup {x}
    /\ retired' = retired \cup ({secret[u]} \ {Absent})
    /\ Finish(r)
    /\ UNCHANGED <<enabled, backup, tickets, attempts, guesses, confirmed, stale>>

EnablePeek(r, t) == Peek(r, t, "setup", "enable_user")

EnableUser(r, c) ==
    LET q == req[r] IN
    /\ q.at = "enable_user"
    /\ c \in Presentable
    /\ UNCHANGED <<store, retired, confirmed, stale>>
    /\ \/ /\ secret[q.user] = Absent
          /\ Finish(r)
          /\ UNCHANGED guesses
       \/ /\ TotpOk(secret[q.user], c)
          /\ Continue(r, [at |-> "enable_write", user |-> q.user,
                          ticket |-> q.ticket, code |-> c])
          /\ UNCHANGED guesses
       \/ /\ secret[q.user] # Absent /\ ~TotpOk(secret[q.user], c)
          /\ Guess(r)

\* The secret that the code was verified against is not written again.
EnableWrite(r, list) ==
    LET q == req[r]
        u == q.user
    IN
    /\ q.at = "enable_write"
    /\ list \cap drawn = {}
    /\ enabled' = [enabled EXCEPT ![u] = TRUE]
    /\ backup' = [backup EXCEPT ![u] = list]
    /\ drawn' = drawn \cup list
    /\ retired' = retired \cup backup[u]
    /\ confirmed' = confirmed \cup {q.code}
    /\ WriteRow(u, secret[u] = q.code)
    /\ Continue(r, [at |-> "spend", user |-> u, ticket |-> q.ticket])
    /\ UNCHANGED <<secret, tickets, attempts, guesses>>

-----------------------------------------------------------------------------
(* POST /auth/mfa/disable, by a signed-in user, and the admin's reset      *)

\* A wrong code is refused and not counted.
DisableUser(r, u, c) ==
    /\ req[r] = Idle
    /\ c \in Presentable
    /\ enabled[u] /\ secret[u] # Absent
    /\ \/ /\ TotpOk(secret[u], c)
          /\ Continue(r, [at |-> "disable_write", user |-> u])
       \/ /\ c \in backup[u]
          /\ MatchBackup(r, u, c, Absent)
    /\ UNCHANGED <<store, history>>

\* Defect for the checks: the secret goes, the switch stays.
EraseFactorsOnly(u) ==
    /\ secret' = [secret EXCEPT ![u] = Absent]
    /\ backup' = [backup EXCEPT ![u] = {}]
    /\ retired' = retired \cup backup[u] \cup ({secret[u]} \ {Absent})
    /\ UNCHANGED enabled

Erase(u) ==
    /\ enabled' = [enabled EXCEPT ![u] = FALSE]
    /\ secret' = [secret EXCEPT ![u] = Absent]
    /\ backup' = [backup EXCEPT ![u] = {}]
    /\ retired' = retired \cup backup[u] \cup ({secret[u]} \ {Absent})

DisableWrite(r) ==
    /\ req[r].at = "disable_write"
    /\ Erase(req[r].user)
    /\ Finish(r)
    /\ UNCHANGED <<tickets, attempts, drawn, guesses, confirmed, stale>>

\* The user is read only to see that the account exists.
AdminReset(u) ==
    /\ Erase(u)
    /\ UNCHANGED <<tickets, attempts, drawn, req, guesses, confirmed, stale>>

-----------------------------------------------------------------------------
(* A store call throws: the handler answers 500 and changes nothing more.  *)

StoreOf == [login_ticket |-> "redis", bump |-> "redis", drop |-> "redis",
            spend |-> "redis", gate |-> "redis", verify_user |-> "db",
            consume |-> "db", setup_write |-> "db", enable_user |-> "db",
            enable_write |-> "db", disable_write |-> "db"]

StoreFails(r) ==
    /\ req[r] # Idle
    /\ StoreOf[req[r].at] \in MayFail
    /\ Finish(r)
    /\ UNCHANGED <<store, history>>

RequestNext(r) ==
    \/ \E u \in Users : Login(r, u)
    \/ \E t \in Tickets :
        \/ LoginTicket(r, t)
        \/ VerifyPeek(r, t)
        \/ SetupPeek(r, t)
        \/ EnablePeek(r, t)
    \/ \E c \in Secrets \cup BackupCodes \cup {Wrong} :
        \/ VerifyUser(r, c)
        \/ EnableUser(r, c)
        \/ \E u \in Users : DisableUser(r, u, c)
    \/ \E x \in Secrets : SetupWrite(r, x)
    \/ \E list \in SUBSET BackupCodes :
        /\ Cardinality(list) = ListSize
        /\ EnableWrite(r, list)
    \/ Consume(r)
    \/ Bump(r)
    \/ Drop(r)
    \/ Spend(r)
    \/ PasswordGate(r)
    \/ DisableWrite(r)
    \/ StoreFails(r)

Next ==
    \/ \E r \in Requests : RequestNext(r)
    \/ \E t \in Tickets : TicketExpires(t)
    \/ \E u \in Users : AdminReset(u)

Spec == Init /\ [][Next]_vars

-----------------------------------------------------------------------------
(* Properties.                                                             *)

\* A ticket is good for MFA_MAX_ATTEMPTS wrong codes and no more than one for
\* each other handler that was in flight with it when the limit was reached
\* (mfa.routes 102-105, 185-188; the counter is bumped after the check).  An
\* error of Redis at the bump would leave a guess uncounted.
GuessesBounded ==
    \A t \in Tickets : guesses[t] < MaxAttempts + Cardinality(Requests)

\* A used backup code, a replaced or erased secret and a replaced or erased
\* list never become valid again (mfa.routes 51-70, 152-155, 192-195,
\* 279-282), unless two handlers worked on one row and the later wrote over
\* what it had not read.
RetiredFactorsAreDead ==
    \A u \in Users \ stale : ({secret[u]} \cup backup[u]) \cap retired = {}

\* An account that demands a code has a secret to verify it with: else every
\* login ends at "MFA is not set up" until an administrator resets it
\* (mfa.routes 96-99).  Only an enable that overlaps a reset breaks it.
EnabledHasSecret ==
    \A u \in Users \ stale : enabled[u] => secret[u] # Absent

\* "Persist the (encrypted) pending secret; mfaEnabled stays false until
\* confirmed" (mfa.routes 151): an account with MFA enabled has a secret that
\* a code was verified against.
EnabledSecretIsConfirmed ==
    \A u \in Users \ stale :
        enabled[u] /\ secret[u] # Absent => secret[u] \in confirmed

=============================================================================
