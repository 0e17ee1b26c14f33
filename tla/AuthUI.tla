------------------------------- MODULE AuthUI -------------------------------
(***************************************************************************)
(* One browser tab of auth-ui: the pages and their guards, the keys of     *)
(* sessionStorage they pass each other, the requests in flight whose       *)
(* answers act on whatever page is then shown, the silent renewal of the   *)
(* access token, and the SSO cookie the tab shares with other tabs.        *)
(*                                                                         *)
(* Source: api, router, main, password-gate and pages/{Login,MFAVerify,    *)
(* MFASetup,ChangePassword,Home,Portal,Register}Page of packages/auth-ui;  *)
(* of AuthorizePage its resolution of the user (the rest is Consent).      *)
(* A token or a user object is the account it belongs to.  The servers'    *)
(* answers are any the routes can give: the other modules are about them.  *)
(***************************************************************************)
EXTENDS FiniteSets

CONSTANTS
    Users,         \* accounts
    Internal,      \* those with a second factor and a directory password
    Targets,       \* return_url: an application's authorization request
    Calls,         \* slots of apiRequest calls in flight
    Registration,  \* registrationEnabled of the runtime configuration
    Absent         \* no such key, nobody, no return_url

ASSUME RegistrationAssumption == Registration \in BOOLEAN
ASSUME InternalAssumption == Internal \subseteq Users
ASSUME UIAbsentAssumption == Absent \notin Users \cup Targets

VARIABLES
    storage,  \* sessionStorage
    cookie,   \* the account of the SSO session the cookie names
    page,     \* what the tab shows
    calls,    \* requests in flight
    \* history, read by the properties only
    out,      \* the user logged out and nothing logged in since
    borrowed  \* AuthorizePage stored the user of the cookie beside another's token

vars == <<storage, cookie, page, calls, out, borrowed>>

-----------------------------------------------------------------------------
(* Shapes.                                                                 *)

Account == Users \cup {Absent}
Target == Targets \cup {Absent}
\* A ticket of the server is the account that entered its password.
Ticket == Internal \cup {Absent}
Storage == [token: Account, user: Account, mfa: Ticket, mfaReturn: Target,
            pwd: Ticket, pwdReturn: Target]
\* target is the address's return_url; ticket and next are what the page's
\* handlers hold: the ticket, and where to go on to.
Page == [path: {"home", "login", "register", "registered", "portal", "authorize",
                "verify", "setup", "codes", "password", "warning", "away"},
         target: Target, ticket: Ticket, next: Target]
Idle == [at |-> "idle"]
\* token is what was sent, as the account a renewal was answered with; old:
\* the user has logged out since.
Call == [at: {"sent", "renewing", "renewed"},
         kind: {"home", "portal", "authorize", "login", "register", "verify", "setup",
                "enable", "change", "logout"},
         token: Account, as: Account, retry: BOOLEAN, old: BOOLEAN,
         who: Account, ticket: Ticket, target: Target]
Timer == [at |-> "timer"]

UITypeOK ==
    /\ storage \in Storage /\ cookie \in Account /\ page \in Page
    /\ page.path \in {"verify", "setup"} => page.ticket # Absent
    /\ calls \in [Calls -> {Idle, Timer} \cup Call]
    /\ out \in BOOLEAN /\ borrowed \in BOOLEAN

Init ==
    /\ storage = [token |-> Absent, user |-> Absent, mfa |-> Absent, mfaReturn |-> Absent,
                  pwd |-> Absent, pwdReturn |-> Absent]
    /\ cookie = Absent
    /\ page = [path |-> "login", target |-> Absent, ticket |-> Absent, next |-> Absent]
    /\ calls = [r \in Calls |-> Idle]
    /\ out = FALSE /\ borrowed = FALSE

-----------------------------------------------------------------------------
(* Routing.                                                                *)

LoggedIn(s, u) == [s EXCEPT !.token = u, !.user = u]
\* clearAuthStorage
Cleared(s) == [s EXCEPT !.token = Absent, !.user = Absent]

\* The guards at the top of the pages and of main's routes.
Denied(path, s) ==
    \/ path \in {"verify", "setup"} /\ s.mfa = Absent
    \/ path = "password" /\ s.pwd = Absent /\ s.token = Absent
    \/ path = "portal" /\ s.token = Absent /\ s.user = Absent
    \/ path = "home" /\ s.token = Absent
    \/ path = "register" /\ ~Registration

TicketOn(path, s) ==
    IF path \in {"verify", "setup"} THEN s.mfa
    ELSE IF path = "password" THEN s.pwd ELSE Absent

Send(kind, s, who, ticket, target) ==
    [at |-> "sent", kind |-> kind, token |-> s.token, as |-> Absent, retry |-> FALSE,
     old |-> FALSE, who |-> who, ticket |-> ticket, target |-> target]

\* The request a page makes as it opens.
OnLoad(path, target, s) ==
    IF path \in {"home", "portal"} /\ s.token # Absent THEN Send(path, s, s.user, Absent, Absent)
    ELSE IF path = "authorize" THEN Send(path, s, Absent, Absent, target)
    ELSE IF path = "setup" THEN Send(path, s, Absent, Absent, Absent)
    ELSE Idle

\* router.navigate with s in the storage; the handler that navigates used r.
Show(r, path, target, s) ==
    LET to == IF Denied(path, s) THEN "login" ELSE path
        goal == IF to = path THEN target ELSE Absent
    IN
    /\ page' = [path |-> to, target |-> goal, ticket |-> TicketOn(to, s), next |-> Absent]
    /\ calls' = [calls EXCEPT ![r] = OnLoad(to, goal, s)]
    /\ storage' = s

Free(r) == calls[r] = Idle
Finish(r) == calls' = [calls EXCEPT ![r] = Idle]

\* window.location: leaving ends the document and its requests.
Leave(goal, s) ==
    /\ page' = [path |-> "away", target |-> Absent, ticket |-> Absent, next |-> goal]
    /\ calls' = [c \in Calls |-> Idle]
    /\ storage' = s

\* goToReturnUrl
GoTo(r, goal, s) ==
    IF goal = Absent THEN Show(r, "home", Absent, s) ELSE Leave(goal, s)

\* continueAfterLogin; the warning depends on the account's password.
GoOn(r, goal, s) ==
    \/ GoTo(r, goal, s)
    \/ /\ page' = [page EXCEPT !.path = "warning", !.ticket = Absent, !.next = goal]
       /\ Finish(r)
       /\ storage' = s

\* redirectIfPasswordChangeRequired
MustChange(r, ticket, goal, s) ==
    Show(r, "password", Absent, [s EXCEPT !.pwd = ticket, !.pwdReturn = goal])

\* The server issued a login of u and its cookie.
Issued(u) == cookie' = u /\ out' = FALSE /\ borrowed' = FALSE

-----------------------------------------------------------------------------
(* What the user does.                                                     *)

\* A link, the address within the application, back or forward.
Navigate(r, path, target) ==
    /\ Free(r)
    /\ page.path # "away"
    /\ path \in {"authorize"} => target # Absent
    /\ path \notin {"authorize", "login", "register"} => target = Absent
    /\ Show(r, path, target, storage)
    /\ UNCHANGED <<cookie, out, borrowed>>

\* Reloading, or coming from an application: the requests of the old document
\* are gone.
Load(r, path, target) ==
    /\ page.path \in {path, "away"}
    /\ path = "authorize" => target # Absent
    /\ path # "authorize" => target = Absent
    /\ LET to == IF Denied(path, storage) THEN "login" ELSE path
           goal == IF to = path THEN target ELSE Absent
       IN /\ page' = [path |-> to, target |-> goal, ticket |-> TicketOn(to, storage),
                      next |-> Absent]
          /\ calls' = [c \in Calls |-> IF c = r THEN OnLoad(to, goal, storage) ELSE Idle]
    /\ UNCHANGED <<storage, cookie, out, borrowed>>

Submit(r, kind, who, ticket) ==
    /\ Free(r)
    /\ \A c \in Calls : calls[c] # Idle => calls[c].at # "timer" /\ calls[c].kind # kind
    /\ calls' = [calls EXCEPT ![r] = Send(kind, storage, who, ticket, Absent)]
    /\ UNCHANGED <<storage, cookie, page, out, borrowed>>

SubmitLogin(r, u) == page.path = "login" /\ Submit(r, "login", u, Absent)
SubmitRegister(r, u) == page.path = "register" /\ Submit(r, "register", u, Absent)
SubmitCode(r) == page.path = "verify" /\ Submit(r, "verify", Absent, page.ticket)
SubmitEnable(r) == page.path = "setup" /\ Submit(r, "enable", Absent, page.ticket)
SubmitChange(r) == page.path = "password" /\ Submit(r, "change", Absent, page.ticket)
PressLogout(r) == page.path = "portal" /\ Submit(r, "logout", Absent, Absent)

\* "Ganti sekarang" and "Nanti saja" on the warning.
WarningChange(r) ==
    /\ page.path = "warning" /\ Free(r)
    /\ Show(r, "password", Absent, [storage EXCEPT !.pwd = Absent, !.pwdReturn = page.next])
    /\ UNCHANGED <<cookie, out, borrowed>>

WarningLater(r) ==
    /\ page.path = "warning" /\ Free(r)
    /\ GoTo(r, page.next, storage)
    /\ UNCHANGED <<cookie, out, borrowed>>

RegisteredContinue(r) ==
    /\ page.path = "registered" /\ Free(r)
    /\ GoTo(r, page.target, storage)
    /\ UNCHANGED <<cookie, out, borrowed>>

\* The page of the backup codes; next is unused, the storage has the goal.
CodesContinue(r) ==
    LET goal == IF page.target # Absent THEN page.target ELSE storage.mfaReturn
        s == [storage EXCEPT !.mfaReturn = Absent]
    IN
    /\ page.path = "codes" /\ Free(r)
    /\ \/ MustChange(r, page.ticket, goal, s)
       \/ GoOn(r, goal, s)
    /\ UNCHANGED <<cookie, out, borrowed>>

\* "Kembali ke login" of the forced change.
AbandonChange(r) ==
    /\ page.path = "password" /\ Free(r)
    /\ Show(r, "login", Absent, [storage EXCEPT !.pwd = Absent, !.pwdReturn = Absent])
    /\ UNCHANGED <<cookie, out, borrowed>>

-----------------------------------------------------------------------------
(* Answers.  The target is read from the address shown when one arrives.   *)

Answers(r, kind) == calls[r] # Idle /\ calls[r].at = "sent" /\ calls[r].kind = kind

\* GET /auth/me: the token's account, or the cookie's if the token is no good;
\* nobody is a 400 or a failure, never the 401 that renews.
MeIs(q) == {q.token, cookie} \cup {Absent}

\* On to the portal, or to the default application if there is one.
HomeArrives(r) ==
    /\ Answers(r, "home")
    /\ \E me \in MeIs(calls[r]) :
        LET user == IF me # Absent THEN me ELSE calls[r].who IN
        IF user = Absent THEN /\ Show(r, "login", Absent, Cleared(storage))
                              /\ borrowed' = FALSE
        ELSE UNCHANGED borrowed /\ (\/ Show(r, "portal", Absent, storage)
                                    \/ Leave(Absent, storage))
    /\ UNCHANGED <<cookie, out>>

\* The portal replaces whatever the tab shows by now.
PortalArrives(r) ==
    /\ Answers(r, "portal")
    /\ \E me \in MeIs(calls[r]) :
        IF me = Absent /\ calls[r].who = Absent
        THEN Show(r, "login", Absent, storage)
        ELSE /\ page' = [page EXCEPT !.path = "portal"]
             /\ Finish(r)
             /\ UNCHANGED storage
    /\ UNCHANGED <<cookie, out, borrowed>>

AuthorizeArrives(r) ==
    /\ Answers(r, "authorize")
    /\ \E me \in MeIs(calls[r]) :
        IF me = Absent
        THEN Show(r, "login", calls[r].target, storage) /\ UNCHANGED borrowed
        ELSE /\ storage' = [storage EXCEPT !.user = me]
             /\ borrowed' = (storage.token # Absent /\ me # storage.token)
             /\ Finish(r)
             /\ UNCHANGED page
    /\ UNCHANGED <<cookie, out>>

\* A ticket for the second factor, or, with MFA switched off on the server or
\* an external account, the forced change or the login itself.
LoginArrives(r) ==
    LET q == calls[r]
        ticket == q.who
        s == [storage EXCEPT !.mfa = ticket,
                             !.mfaReturn = IF page.target # Absent THEN page.target ELSE @]
    IN
    /\ Answers(r, "login")
    /\ \/ /\ q.who \in Internal
          /\ \E path \in {"setup", "verify"} : Show(r, path, Absent, s)
          /\ UNCHANGED <<cookie, out, borrowed>>
       \/ /\ q.who \in Internal
          /\ MustChange(r, ticket, page.target, storage)
          /\ UNCHANGED <<cookie, out, borrowed>>
       \/ /\ GoOn(r, page.target, LoggedIn(storage, q.who))
          /\ Issued(q.who)

RegisterArrives(r) ==
    /\ Answers(r, "register")
    /\ storage' = LoggedIn(storage, calls[r].who)
    /\ page' = [page EXCEPT !.path = "registered"]
    /\ Finish(r)
    /\ Issued(calls[r].who)

\* finishLogin
VerifyArrives(r) ==
    LET ticket == calls[r].ticket
        goal == IF page.target # Absent THEN page.target ELSE storage.mfaReturn
        s == [storage EXCEPT !.mfa = Absent, !.mfaReturn = Absent]
    IN
    /\ Answers(r, "verify")
    /\ \/ MustChange(r, ticket, goal, s) /\ UNCHANGED <<cookie, out, borrowed>>
       \/ GoOn(r, goal, LoggedIn(s, ticket)) /\ Issued(ticket)

\* The secret is shown if the page still is.
SetupArrives(r) ==
    /\ Answers(r, "setup")
    /\ Finish(r)
    /\ UNCHANGED <<storage, cookie, page, out, borrowed>>

\* showBackupCodes: the login is stored at once, the codes shown if the page
\* still is.
EnableArrives(r) ==
    LET ticket == calls[r].ticket IN
    /\ Answers(r, "enable")
    /\ \/ /\ storage' = LoggedIn([storage EXCEPT !.mfa = Absent], ticket)
          /\ Issued(ticket)
       \/ /\ storage' = [storage EXCEPT !.mfa = Absent]
          /\ UNCHANGED <<cookie, out, borrowed>>
    /\ page' = IF page.path = "setup" THEN [page EXCEPT !.path = "codes", !.ticket = ticket]
               ELSE page
    /\ Finish(r)

\* Without a ticket the change is the bearer's, or the session's.
ChangeArrives(r) ==
    LET q == calls[r]
        s == [storage EXCEPT !.pwd = Absent, !.pwdReturn = Absent]
    IN
    /\ Answers(r, "change")
    /\ \E u \in IF q.ticket # Absent THEN {q.ticket} ELSE {q.token, cookie} \ {Absent} :
        /\ GoTo(r, storage.pwdReturn, LoggedIn(s, u))
        /\ Issued(u)

\* Whether or not the server heard it.
LogoutArrives(r) ==
    /\ Answers(r, "logout")
    /\ cookie' \in {cookie, Absent}
    /\ storage' = Cleared(storage)
    /\ page' = [path |-> "login", target |-> Absent, ticket |-> Absent, next |-> Absent]
    /\ calls' = [c \in Calls |-> IF c = r THEN Idle
                                 ELSE IF calls[c] \in {Idle, Timer} THEN calls[c]
                                 ELSE [calls[c] EXCEPT !.old = TRUE]]
    /\ out' = TRUE /\ borrowed' = FALSE

-----------------------------------------------------------------------------
(* Refusals and the renewal of the token (apiRequest).                     *)

MayRefuse == {"login", "verify", "setup", "enable", "change"}

\* The page hears of the 401, s being in the storage: a dead ticket is dropped
\* and leads to the login after a while.
Refused(r, s) ==
    LET q == calls[r]
        dead == IF q.kind \in {"verify", "setup"} THEN [s EXCEPT !.mfa = Absent]
                ELSE [s EXCEPT !.pwd = Absent]
    IN
    /\ \/ /\ q.kind = "change" => q.ticket = Absent
          /\ storage' = s
          /\ Finish(r)
       \/ /\ q.kind \in {"verify", "setup"} \/ (q.kind = "change" /\ q.ticket # Absent)
          /\ storage' = dead
          /\ calls' = [calls EXCEPT ![r] = Timer]
    /\ UNCHANGED page

\* Defect for the checks: a request without a token is renewed too.
UnauthorizedAny(r) ==
    LET q == calls[r] IN
    /\ q # Idle /\ q.at = "sent" /\ q.kind \in MayRefuse
    /\ IF ~q.retry
       THEN /\ calls' = [calls EXCEPT ![r].at = "renewing"]
            /\ UNCHANGED <<storage, page>>
       ELSE Refused(r, storage)
    /\ UNCHANGED <<cookie, out, borrowed>>

\* 401: renewed once, if it was sent with a token.
Unauthorized(r) ==
    LET q == calls[r] IN
    /\ q # Idle /\ q.at = "sent" /\ q.kind \in MayRefuse
    /\ IF q.token # Absent /\ ~q.retry
       THEN /\ calls' = [calls EXCEPT ![r].at = "renewing"]
            /\ UNCHANGED <<storage, page>>
       ELSE Refused(r, storage)
    /\ UNCHANGED <<cookie, out, borrowed>>

\* POST /auth/session/token answers for the session of the cookie.
RenewAnswers(r) ==
    /\ calls[r] # Idle /\ calls[r].at = "renewing"
    /\ calls' = [calls EXCEPT ![r].at = "renewed", ![r].as = cookie]
    /\ UNCHANGED <<storage, cookie, page, out, borrowed>>

\* Defect for the checks: the renewal leaves the stored user.
RenewToken(r) ==
    LET q == calls[r] IN
    /\ q # Idle /\ q.at = "renewed" /\ q.as # Absent
    /\ storage' = [storage EXCEPT !.token = q.as]
    /\ calls' = [calls EXCEPT ![r] = [q EXCEPT !.at = "sent", !.retry = TRUE,
                                               !.token = q.as, !.as = Absent]]
    /\ out' = (out /\ ~q.old)
    /\ borrowed' = FALSE
    /\ UNCHANGED <<cookie, page>>

\* The request is sent again with whatever token is stored.
RenewArrives(r) ==
    LET q == calls[r] IN
    /\ q # Idle /\ q.at = "renewed" /\ q.as # Absent
    /\ storage' = LoggedIn(storage, q.as)
    /\ calls' = [calls EXCEPT ![r] = [q EXCEPT !.at = "sent", !.retry = TRUE,
                                               !.token = q.as, !.as = Absent]]
    /\ out' = (out /\ ~q.old)
    /\ borrowed' = FALSE
    /\ UNCHANGED <<cookie, page>>

\* The session is gone, or the network failed: the storage is cleared alike.
RenewFails(r) ==
    /\ calls[r] # Idle /\ calls[r].at \in {"renewing", "renewed"}
    /\ Refused(r, Cleared(storage))
    /\ borrowed' = FALSE
    /\ UNCHANGED <<cookie, out>>

\* Another refusal, or no answer: the page shows it.
Fails(r) ==
    /\ calls[r] # Idle /\ calls[r].at = "sent"
    /\ calls[r].kind \in MayRefuse \cup {"register"}
    /\ Finish(r)
    /\ UNCHANGED <<storage, cookie, page, out, borrowed>>

\* setTimeout(() => router.navigate('/login'))
TimerFires(r) ==
    /\ calls[r] = Timer
    /\ Show(r, "login", Absent, storage)
    /\ UNCHANGED <<cookie, out, borrowed>>

\* Another tab logs in or out, or the session ends.
CookieChanges(u) ==
    /\ cookie' = u /\ u # cookie
    /\ UNCHANGED <<storage, page, calls, out, borrowed>>

Act(r) ==
    \/ \E path \in {"home", "login", "register", "portal", "authorize", "verify", "setup",
                    "password"}, target \in Target :
           Navigate(r, path, target) \/ Load(r, path, target)
    \/ \E u \in Users : SubmitLogin(r, u) \/ SubmitRegister(r, u)
    \/ SubmitCode(r)
    \/ SubmitEnable(r)
    \/ SubmitChange(r)
    \/ PressLogout(r)
    \/ WarningChange(r)
    \/ WarningLater(r)
    \/ RegisteredContinue(r)
    \/ CodesContinue(r)
    \/ AbandonChange(r)

Arrive(r) ==
    \/ HomeArrives(r)
    \/ PortalArrives(r)
    \/ AuthorizeArrives(r)
    \/ LoginArrives(r)
    \/ RegisterArrives(r)
    \/ VerifyArrives(r)
    \/ SetupArrives(r)
    \/ EnableArrives(r)
    \/ ChangeArrives(r)
    \/ LogoutArrives(r)
    \/ Unauthorized(r)
    \/ RenewAnswers(r)
    \/ RenewArrives(r)
    \/ RenewFails(r)
    \/ Fails(r)
    \/ TimerFires(r)

Next ==
    \/ \E u \in Account : CookieChanges(u)
    \/ \E r \in Calls : Act(r) \/ Arrive(r)

Spec == Init /\ [][Next]_vars

-----------------------------------------------------------------------------
(* Properties.                                                             *)

\* The user the pages greet is the one the stored token acts for, whichever
\* answers arrive late and whoever logs in in another tab, but for AuthorizePage,
\* which stores the user of the cookie next to a token that has run out
\* (api.ts 244-245, AuthorizePage 218-226).
StorageIsOneAccounts ==
    Absent \notin {storage.token, storage.user} /\ ~borrowed =>
        storage.token = storage.user

\* After Keluar no token is stored until somebody logs in, even if the server
\* never heard of the logout and the cookie lives; but a renewal that was under
\* way when the storage was cleared stores one (PortalPage 341-349, api.ts 297).
LogoutSticks == out => storage.token = Absent

\* The return_url kept for the second factor is that of the login the ticket came
\* from, "otherwise the user never returns to the originating app"
\* (MFAVerifyPage 13-15, LoginPage 178-189).
ReturnsToOrigin ==
    [][\A r \in Calls :
           LoginArrives(r) /\ page'.path \in {"verify", "setup"} =>
               storage'.mfaReturn = page.target]_vars

=============================================================================
