--------------------------- MODULE PasswordChange ---------------------------
(***************************************************************************)
(* Changing the directory's password through SADA: the ticket a login gets *)
(* when the password has expired, the voluntary change, the counter of     *)
(* wrong old passwords, the call to Zimbra with its uncertain outcome, the *)
(* record of the change and the end of the earlier logins, against the     *)
(* administrator's Wajibkan Ganti Password.                                *)
(*                                                                         *)
(* Source: routes/{password,user}.routes, services/{zimbra,password-policy,*)
(* login-issuer,user}.service of packages/auth-service.  An action is a    *)
(* handler's code up to and including its next awaited call.  Users are    *)
(* INTERNAL; the two factors were proven before Login; revokeAllUserAccess *)
(* and issueUserLogin are one step each here and UserAccess's subject.     *)
(***************************************************************************)
EXTENDS Integers, FiniteSets

CONSTANTS
    Users,      \* User.id
    Passwords,  \* what a user can type
    Tickets,    \* randomBytes(32)
    Logins,     \* access token, refresh token and session of one login
    MaxWrong,   \* MAX_WRONG_OLD_PASSWORD
    Requests,   \* slots of concurrently running handlers
    MayFail,    \* what may throw: "db", "redis", "zimbra"
    Absent      \* no such key, no such login

Login == [user: Users, late: BOOLEAN]

ASSUME ChangeBoundsAssumption == MaxWrong \in Nat \ {0}
ASSUME ChangeFailAssumption == MayFail \subseteq {"db", "redis", "zimbra"}
ASSUME ChangeRequestsAssumption == IsFiniteSet(Requests)
ASSUME ChangeAbsentAssumption == Absent \notin Users \cup Login

VARIABLES
    password,  \* Zimbra: each user's password
    aged,      \* getPasswordExpiry is 'expired' by User.passwordChangedAt
    must,      \* User.passwordMustChange
    tickets,   \* Redis keys pwd_change:<ticket>: the user
    wrong,     \* Redis keys pwd_change:att:user:<id>; 0 is no key
    window,    \* whether that key has a time to live
    logins,    \* rows of OAuthToken with their sessions
    drawn,     \* tickets and logins that have been used
    req,       \* the running handlers
    \* history, read by the properties only
    guesses,   \* wrong old passwords Zimbra evaluated since the key appeared, while
               \* none was lost
    lost,      \* users whose key lost a write to an error of Redis
    required,  \* the requirement of a user since Zimbra last changed the password
               \* for SADA: "no", "written", "answered" to the administrator
    overtaken  \* handlers that were past the expiry gate, or past Zimbra,
               \* when the requirement was written

store == <<password, aged, must, tickets, wrong, window, logins, drawn>>
history == <<guesses, lost, required, overtaken>>
vars == <<store, req, history>>

-----------------------------------------------------------------------------
(* The shapes a running handler can have.                                  *)

Idle == [at |-> "idle"]
\* A login past the gate, and the administrator's request.
PlainRequest == [at: {"ticket_set", "login_issue", "require_write", "require_sweep"},
                 user: Users]
\* ticket is Absent in the voluntary change.
ChangeRequest ==
    [at: {"ticket_user", "attempts", "zimbra", "incr", "expire", "del", "record",
          "sweep", "issue", "ticket_del"},
     user: Users, ticket: Tickets \cup {Absent}, old: Passwords, new: Passwords]

Request == {Idle} \cup PlainRequest \cup ChangeRequest

PasswordTypeOK ==
    /\ password \in [Users -> Passwords]
    /\ aged \in [Users -> BOOLEAN] /\ must \in [Users -> BOOLEAN]
    /\ tickets \in [Tickets -> Users \cup {Absent}]
    /\ wrong \in [Users -> Nat] /\ window \in [Users -> BOOLEAN]
    /\ logins \in [Logins -> Login \cup {Absent}]
    /\ drawn \subseteq Tickets \cup Logins
    /\ req \in [Requests -> Request]
    /\ guesses \in [Users -> Nat]
    /\ lost \subseteq Users
    /\ required \in [Users -> {"no", "written", "answered"}]
    /\ overtaken \subseteq Requests

Init ==
    /\ password \in [Users -> Passwords]
    /\ aged \in [Users -> BOOLEAN]
    /\ must = [u \in Users |-> FALSE]
    /\ tickets = [t \in Tickets |-> Absent]
    /\ wrong = [u \in Users |-> 0] /\ window = [u \in Users |-> FALSE]
    /\ logins = [l \in Logins |-> Absent]
    /\ drawn = {}
    /\ req = [r \in Requests |-> Idle]
    /\ guesses = [u \in Users |-> 0]
    /\ lost = {} /\ required = [u \in Users |-> "no"] /\ overtaken = {}

-----------------------------------------------------------------------------
(* Helpers.                                                                *)

Continue(r, q) == req' = [req EXCEPT ![r] = q]
Go(r, step) == Continue(r, [req[r] EXCEPT !.at = step])
Finish(r) == Continue(r, Idle) /\ overtaken' = overtaken \ {r}

LoginsOf(u) == {l \in Logins : logins[l] # Absent /\ logins[l].user = u}

\* revokeAllUserAccess
Sweep(u) == logins' = [l \in Logins |-> IF l \in LoginsOf(u) THEN Absent ELSE logins[l]]

\* issueUserLogin
Issue(r, l) ==
    /\ l \notin drawn
    /\ drawn' = drawn \cup {l}
    /\ logins' = [logins EXCEPT ![l] = [user |-> req[r].user, late |-> r \in overtaken]]

\* checkNewPassword; its other rules are left to ReadAttempts' refusal.
Acceptable(old, new) == new # old

\* The counter's key is gone.
ClearWrong(u) ==
    /\ wrong' = [wrong EXCEPT ![u] = 0] /\ window' = [window EXCEPT ![u] = FALSE]
    /\ guesses' = [guesses EXCEPT ![u] = 0]
    /\ lost' = lost \ {u}

\* Defect for the checks: the flag of the requirement is not looked at.
ExpiredOnlyIfOld(u, old) == old

\* getPasswordExpiry, old being whether the date of the change is.
Expired(u, old) == old \/ must[u]

-----------------------------------------------------------------------------
(* A login: the row takes the directory's date if that is later, then the  *)
(* gate decides on the row (maybeRequirePasswordChange).                   *)

SignIn(r, u) ==
    /\ req[r] = Idle
    /\ \E old \in {aged[u], FALSE} :
        /\ aged' = [aged EXCEPT ![u] = old]
        /\ Continue(r, [at |-> IF Expired(u, old) THEN "ticket_set" ELSE "login_issue",
                        user |-> u])
    /\ UNCHANGED <<password, must, tickets, wrong, window, logins, drawn, history>>

SetTicket(r, t) ==
    /\ req[r].at = "ticket_set"
    /\ t \notin drawn
    /\ drawn' = drawn \cup {t}
    /\ tickets' = [tickets EXCEPT ![t] = req[r].user]
    /\ Finish(r)
    /\ UNCHANGED <<password, aged, must, wrong, window, logins,
                   guesses, lost, required>>

\* The end of a login that passed the gate; IssueAfterChange is that of a change.
IssueLogin(r, l) ==
    /\ req[r].at = "login_issue"
    /\ Issue(r, l)
    /\ Finish(r)
    /\ UNCHANGED <<password, aged, must, tickets, wrong, window,
                   guesses, lost, required>>

-----------------------------------------------------------------------------
(* POST /auth/password/change-expired and /auth/password/change            *)

ChangeExpired(r, t, old, new) ==
    /\ req[r] = Idle
    /\ tickets[t] # Absent
    /\ Continue(r, [at |-> "ticket_user", user |-> tickets[t], ticket |-> t,
                    old |-> old, new |-> new])
    /\ UNCHANGED <<store, history>>

\* Whoever holds an access token that has not expired, revoked or not, is
\* taken for its user: the old password is the proof.
ChangeVoluntarily(r, u, old, new) ==
    /\ req[r] = Idle
    /\ drawn \cap Logins # {}
    /\ Continue(r, [at |-> "ticket_user", user |-> u, ticket |-> Absent,
                    old |-> old, new |-> new])
    /\ UNCHANGED <<store, history>>

\* The row is read; an account that is not active is refused.
ReadUser(r) ==
    /\ req[r].at = "ticket_user"
    /\ \/ Go(r, "attempts") /\ UNCHANGED overtaken
       \/ Finish(r)
    /\ UNCHANGED <<store, guesses, lost, required>>

\* Defect for the checks: the limit is not applied to tickets.
ReadAttemptsVoluntary(r) ==
    LET q == req[r] IN
    /\ q.at = "attempts"
    /\ \/ /\ q.ticket = Absent => wrong[q.user] < MaxWrong
          /\ Acceptable(q.old, q.new)
          /\ Go(r, "zimbra") /\ UNCHANGED overtaken
       \/ Finish(r)
    /\ UNCHANGED <<store, guesses, lost, required>>

\* The counter is read and the new password checked.
ReadAttempts(r) ==
    LET q == req[r] IN
    /\ q.at = "attempts"
    /\ \/ /\ wrong[q.user] < MaxWrong
          /\ Acceptable(q.old, q.new)
          /\ Go(r, "zimbra") /\ UNCHANGED overtaken
       \/ Finish(r)
    /\ UNCHANGED <<store, guesses, lost, required>>

\* zimbraService.changePassword.  Zimbra may refuse the new password for
\* rules of its own.
CallZimbra(r) ==
    LET q == req[r]
        u == q.user
    IN
    /\ q.at = "zimbra"
    /\ \/ /\ q.old = password[u]
          /\ password' = [password EXCEPT ![u] = q.new]
          /\ required' = [required EXCEPT ![u] = "no"]
          /\ Go(r, "del")
          /\ UNCHANGED <<guesses, overtaken>>
       \/ /\ q.old = password[u]
          /\ Finish(r)
          /\ UNCHANGED <<password, required, guesses>>
       \/ /\ q.old # password[u]
          /\ guesses' = IF u \in lost THEN guesses ELSE [guesses EXCEPT ![u] = @ + 1]
          /\ Go(r, "incr")
          /\ UNCHANGED <<password, required, overtaken>>
    /\ UNCHANGED <<aged, must, tickets, wrong, window, logins, drawn, lost>>

\* No answer within TIMEOUT_MS, or none that can be read: 503, whether or not
\* Zimbra had changed the password.  Nothing is counted.
ZimbraFails(r) ==
    LET q == req[r] IN
    /\ q.at = "zimbra"
    /\ "zimbra" \in MayFail
    /\ \/ UNCHANGED <<password, lost>>
       \/ /\ q.old = password[q.user]
          /\ password' = [password EXCEPT ![q.user] = q.new]
          /\ UNCHANGED lost
       \/ \* it was wrong, and nobody counted it
          /\ q.old # password[q.user]
          /\ lost' = lost \cup {q.user}
          /\ UNCHANGED <<password>>
    /\ Finish(r)
    /\ UNCHANGED <<aged, must, tickets, wrong, window, logins, drawn, guesses, required>>

CountWrong(r) ==
    LET u == req[r].user IN
    /\ req[r].at = "incr"
    /\ wrong' = [wrong EXCEPT ![u] = @ + 1]
    /\ IF wrong[u] = 0 THEN Go(r, "expire") /\ UNCHANGED overtaken ELSE Finish(r)
    /\ UNCHANGED <<password, aged, must, tickets, window, logins, drawn,
                   guesses, lost, required>>

\* Defect for the checks: the window is only set when the limit is reached.
StartWindowAtLimit(r) ==
    LET u == req[r].user IN
    /\ req[r].at = "expire"
    /\ window' = [window EXCEPT ![u] = wrong[u] = MaxWrong]
    /\ Finish(r)
    /\ UNCHANGED <<password, aged, must, tickets, wrong, logins, drawn,
                   guesses, lost, required>>

\* EXPIRE does nothing when the key has gone.
StartWindow(r) ==
    LET u == req[r].user IN
    /\ req[r].at = "expire"
    /\ window' = [window EXCEPT ![u] = wrong[u] > 0]
    /\ Finish(r)
    /\ UNCHANGED <<password, aged, must, tickets, wrong, logins, drawn,
                   guesses, lost, required>>

ForgetWrong(r) ==
    /\ req[r].at = "del"
    /\ ClearWrong(req[r].user)
    /\ Go(r, "record")
    /\ UNCHANGED <<password, aged, must, tickets, logins, drawn,
                   required, overtaken>>

\* The flag is cleared whatever it is now.
RecordChange(r) ==
    LET u == req[r].user IN
    /\ req[r].at = "record"
    /\ aged' = [aged EXCEPT ![u] = FALSE]
    /\ must' = [must EXCEPT ![u] = FALSE]
    /\ required' = IF r \in overtaken THEN [required EXCEPT ![u] = "no"] ELSE required
    /\ Go(r, "sweep")
    /\ UNCHANGED <<password, tickets, wrong, window, logins, drawn,
                   guesses, lost, overtaken>>

SweepLogins(r) ==
    /\ req[r].at = "sweep"
    /\ Sweep(req[r].user)
    /\ Go(r, "issue")
    /\ UNCHANGED <<password, aged, must, tickets, wrong, window, drawn,
                   history>>

IssueAfterChange(r, l) ==
    /\ req[r].at = "issue"
    /\ Issue(r, l)
    /\ IF req[r].ticket = Absent THEN Finish(r) ELSE Go(r, "ticket_del") /\ UNCHANGED overtaken
    /\ UNCHANGED <<password, aged, must, tickets, wrong, window,
                   guesses, lost, required>>

\* Deleted only once the login was issued.
DeleteTicket(r) ==
    /\ req[r].at = "ticket_del"
    /\ tickets' = [tickets EXCEPT ![req[r].ticket] = Absent]
    /\ Finish(r)
    /\ UNCHANGED <<password, aged, must, wrong, window, logins, drawn,
                   guesses, lost, required>>

-----------------------------------------------------------------------------
(* POST /users/:id/password/require-change                                 *)

Require(r, u) ==
    /\ req[r] = Idle
    /\ Continue(r, [at |-> "require_write", user |-> u])
    /\ UNCHANGED <<store, history>>

PastTheGate(r, u) ==
    req[r] # Idle /\ req[r].user = u
        /\ req[r].at \in {"login_issue", "del", "record", "sweep", "issue"}

RequireWrite(r) ==
    LET u == req[r].user IN
    /\ req[r].at = "require_write"
    /\ must' = [must EXCEPT ![u] = TRUE]
    /\ overtaken' = overtaken \cup {p \in Requests : PastTheGate(p, u)}
    /\ required' = [required EXCEPT ![u] = "written"]
    /\ Go(r, "require_sweep")
    /\ UNCHANGED <<password, aged, tickets, wrong, window, logins, drawn,
                   guesses, lost>>

RequireSweep(r) ==
    LET u == req[r].user IN
    /\ req[r].at = "require_sweep"
    /\ Sweep(u)
    /\ required' = [required EXCEPT ![u] = IF @ = "written" THEN "answered" ELSE @]
    /\ Finish(r)
    /\ UNCHANGED <<password, aged, must, tickets, wrong, window, drawn,
                   guesses, lost>>

-----------------------------------------------------------------------------
(* The world outside, and failures.                                        *)

\* The webmail changes a password without SADA.
WebmailChange(u, new) ==
    /\ new # password[u]
    /\ password' = [password EXCEPT ![u] = new]
    /\ UNCHANGED <<aged, must, tickets, wrong, window, logins, drawn, req, history>>

\* The period runs out.
PasswordAges(u) ==
    /\ ~aged[u]
    /\ aged' = [aged EXCEPT ![u] = TRUE]
    /\ UNCHANGED <<password, must, tickets, wrong, window, logins, drawn, req, history>>

TicketExpires(t) ==
    /\ tickets[t] # Absent
    /\ tickets' = [tickets EXCEPT ![t] = Absent]
    /\ UNCHANGED <<password, aged, must, wrong, window, logins, drawn, req,
                   history>>

WindowEnds(u) ==
    /\ window[u]
    /\ ClearWrong(u)
    /\ UNCHANGED <<password, aged, must, tickets, logins, drawn, req,
                   required, overtaken>>

\* A store throws: the handler answers 500 where it stands.
StoreFails(r) ==
    LET q == req[r] IN
    /\ \/ "db" \in MayFail /\ q.at \in {"ticket_user", "record", "sweep", "issue",
                                        "login_issue", "require_write", "require_sweep"}
       \/ "redis" \in MayFail /\ q.at \in {"ticket_set", "attempts", "incr", "expire", "del",
                                           "sweep", "issue", "ticket_del", "require_sweep"}
    /\ lost' = IF q.at \in {"incr", "expire"} THEN lost \cup {q.user} ELSE lost
    /\ Finish(r)
    /\ UNCHANGED <<store, guesses, required>>

Start(r) ==
    \/ \E u \in Users : SignIn(r, u) \/ Require(r, u)
    \/ \E old, new \in Passwords :
        \/ \E t \in Tickets : ChangeExpired(r, t, old, new)
        \/ \E u \in Users : ChangeVoluntarily(r, u, old, new)

Resume(r) ==
    \/ \E t \in Tickets : SetTicket(r, t)
    \/ \E l \in Logins : IssueLogin(r, l) \/ IssueAfterChange(r, l)
    \/ ReadUser(r)
    \/ ReadAttempts(r)
    \/ CallZimbra(r)
    \/ ZimbraFails(r)
    \/ CountWrong(r)
    \/ StartWindow(r)
    \/ ForgetWrong(r)
    \/ RecordChange(r)
    \/ SweepLogins(r)
    \/ DeleteTicket(r)
    \/ RequireWrite(r)
    \/ RequireSweep(r)
    \/ StoreFails(r)

World ==
    \/ \E u \in Users :
        \/ \E new \in Passwords : WebmailChange(u, new)
        \/ PasswordAges(u)
        \/ WindowEnds(u)
    \/ \E t \in Tickets : TicketExpires(t)

Next == World \/ \E r \in Requests : Start(r) \/ Resume(r)

Spec == Init /\ [][Next]_vars

-----------------------------------------------------------------------------
(* Properties.                                                             *)

\* The change is no easier way to guess a password than the login form: Zimbra
\* evaluates no more than MAX_WRONG_OLD_PASSWORD wrong ones, and one for each
\* other handler in flight, before the counter's key ends, over tickets and
\* voluntary changes together (password.routes 84-116), unless Redis lost one.
OldPasswordGuessesBounded ==
    \A u \in Users \ lost : guesses[u] < MaxWrong + Cardinality(Requests)

\* A block ends: a counter never stays without a time to live, whichever
\* handlers count, expire and delete it in between, unless Redis failed between
\* INCR and EXPIRE (password.routes 91, 114-115: "Coba lagi 15 menit lagi.").
BlocksEnd ==
    \A u \in Users \ lost :
        wrong[u] > 0 => window[u] \/ \E r \in Requests :
                                          req[r].at = "expire" /\ req[r].user = u

\* Wajibkan Ganti Password holds (CONTEXT.md 33): until Zimbra has changed the
\* password for SADA the flag stays, and once the administrator has the answer
\* no login of the user lives but those of handlers that were past the gate
\* when the flag was written.  A change that was past Zimbra then ends it too.
RequirementHolds ==
    \A u \in Users :
        /\ required[u] # "no" => must[u]
        /\ required[u] = "answered" => \A l \in LoginsOf(u) : logins[l].late

=============================================================================
