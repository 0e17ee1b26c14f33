------------------------------ MODULE Consent ------------------------------
(***************************************************************************)
(* The consent of an account to a client: the pages of auth-ui that ask    *)
(* for it, in tabs that share one SSO cookie and have a bearer token each, *)
(* and GET /oauth/authorize, which settles who is asking, on its own, each *)
(* time it is called, and keeps the scopes approved in a Redis key that is *)
(* read, merged and written back.                                          *)
(*                                                                         *)
(* Source: pages/AuthorizePage and its older twin authorize.ts in          *)
(* packages/auth-ui; the authorize handler of routes/oauth.routes,         *)
(* GET /auth/me of routes/auth.routes and generateAuthorizationCode of     *)
(* services/oauth.service in packages/auth-service.  Redirect URIs, PKCE,  *)
(* state and nonce are left out; what a code becomes is TokenGrants.       *)
(***************************************************************************)
EXTENDS Naturals, FiniteSets

CONSTANTS
    Users,
    InternalUsers,   \* those of type INTERNAL
    Clients,
    Scopes,
    InternalScopes,  \* scopes kept for users of type INTERNAL
    Registered,      \* the scopes every client is registered with
    Tabs,            \* of one browser
    ConsentTTL,      \* CONSENT_TTL_SECONDS
    MayFail,         \* the stores that may fail: a subset of {"db", "redis"}
    MaxTime,         \* bound: the clock
    MaxFlows,        \* bound: authorizations begun
    MaxEvents,       \* bound: logins, logouts, tokens aged out, expiries, deactivations
    Nobody

ASSUME ConsentSetsAssumption ==
    InternalUsers \subseteq Users /\ InternalScopes \subseteq Scopes
    /\ Registered \subseteq Scopes /\ MayFail \subseteq {"db", "redis"}
ASSUME ConsentBoundsAssumption ==
    ConsentTTL \in Nat /\ MaxTime \in Nat /\ MaxFlows \in Nat /\ MaxEvents \in Nat
ASSUME ConsentNamesAssumption == Nobody \notin Users

VARIABLES
    clock,
    consent,  \* consent:<user>:<client>: scopes and the time the key expires
    cookie,   \* the account of the SSO session the browser's cookie names
    bearer,   \* the account of the tab's access token
    expired,  \* accounts whose password has expired
    active,   \* clients with isActive
    tab,
    flows, events,
    \* history, read by the properties only
    allowed,  \* scopes allowed on a screen that named the account
    strays,   \* approvals recorded after the tab's account had changed
    issued,   \* scopes of the codes issued
    kept,     \* until when an acknowledged approval has to be on record
    raced     \* approvals that overlapped

store == <<consent, expired, active>>
browser == <<cookie, bearer>>
history == <<allowed, strays, issued, kept, raced>>
vars == <<clock, store, browser, tab, flows, events, history>>

-----------------------------------------------------------------------------
(* Shapes.                                                                 *)

Account == Users \cup {Nobody}
Time == 0 .. MaxTime + ConsentTTL
Closed == [at |-> "closed"]
Page == [at: {"me", "lookup", "shown"}, client: Clients, scopes: SUBSET Scopes,
         shown: Account, moved: BOOLEAN, approved: BOOLEAN, nav: BOOLEAN, who: Account,
         stored: SUBSET Scopes]
Call == [at: {"identify", "expiry", "client", "read", "write", "code"}, client: Clients,
         scopes: SUBSET Scopes, shown: Account, moved: BOOLEAN, approved: BOOLEAN,
         nav: BOOLEAN, who: Account, stored: SUBSET Scopes]

ConsentTypeOK ==
    /\ clock \in 0 .. MaxTime
    /\ consent \in [Users \X Clients -> [scopes: SUBSET Scopes, till: Time]]
    /\ cookie \in Account /\ bearer \in [Tabs -> Account]
    /\ expired \subseteq Users /\ active \subseteq Clients
    /\ tab \in [Tabs -> {Closed} \cup Page \cup Call]
    /\ flows \in 0 .. MaxFlows /\ events \in 0 .. MaxEvents
    /\ allowed \in [Users \X Clients -> SUBSET Scopes]
    /\ strays \subseteq Users \X Clients /\ raced \subseteq Users \X Clients
    /\ issued \in [Users \X Clients -> SUBSET Scopes]
    /\ kept \in [Users \X Clients -> [Scopes -> Time]]

Init ==
    /\ clock = 0
    /\ consent = [p \in Users \X Clients |-> [scopes |-> {}, till |-> 0]]
    /\ cookie = Nobody /\ bearer = [t \in Tabs |-> Nobody]
    /\ expired = {} /\ active = Clients
    /\ tab = [t \in Tabs |-> Closed]
    /\ flows = 0 /\ events = 0
    /\ allowed = [p \in Users \X Clients |-> {}] /\ strays = {} /\ raced = {}
    /\ issued = [p \in Users \X Clients |-> {}]
    /\ kept = [p \in Users \X Clients |-> [s \in Scopes |-> 0]]

-----------------------------------------------------------------------------
(* Who asks.                                                               *)

\* GET /auth/me: the bearer token's account, or the cookie's.
WhoAmI(t) == IF bearer[t] # Nobody THEN bearer[t] ELSE cookie

\* Defect for the checks: the cookie before the bearer token.
AskerByCookie(t) == IF cookie # Nobody \/ tab[t].nav THEN cookie ELSE bearer[t]

\* GET /oauth/authorize: likewise; a navigation carries no bearer token.
Asker(t) == IF bearer[t] # Nobody /\ ~tab[t].nav THEN bearer[t] ELSE cookie

\* The tabs once the browser's accounts are b and k: an open page whose account
\* is another one now has moved.
TabsAfter(b, k) ==
    [x \in Tabs |->
        IF tab[x] # Closed /\ WhoAmI(x) # (IF b[x] # Nobody THEN b[x] ELSE k)
        THEN [tab[x] EXCEPT !.moved = TRUE] ELSE tab[x]]

Stored(u, c) == IF consent[<<u, c>>].till > clock THEN consent[<<u, c>>].scopes ELSE {}

\* Defect for the checks: some of the scopes are enough.
CoversSome(stored, requested) == requested = {} \/ stored \cap requested # {}

Covers(stored, requested) == requested \subseteq stored

\* generateAuthorizationCode: restricted scopes are dropped.
Granted(u, requested) ==
    {s \in requested : s \notin InternalScopes \/ u \in InternalUsers}

-----------------------------------------------------------------------------
(* The pages.                                                              *)

Quiet == UNCHANGED <<clock, store, browser, events, history>>

Begin(t, at, c, S, approved, nav) ==
    /\ tab[t] = Closed
    /\ flows < MaxFlows /\ flows' = flows + 1
    /\ tab' = [tab EXCEPT ![t] = [at |-> at, client |-> c, scopes |-> S, shown |-> Nobody,
                                  moved |-> FALSE, approved |-> approved, nav |-> nav,
                                  who |-> Nobody, stored |-> {}]]
    /\ Quiet

\* The client sends the browser to the page, which asks for some scopes.
Open(t, c, S) == S # {} /\ Begin(t, "me", c, S, FALSE, FALSE)

\* The client sends the browser to the server, which may be asked for none, and
\* may say that consent was given.
Navigate(t, c, S, approved) == Begin(t, "identify", c, S, approved, TRUE)

Goto(t, at) == tab' = [tab EXCEPT ![t].at = at]
Close(t) == tab' = [tab EXCEPT ![t] = Closed]

\* init up to GET /auth/me: nobody, or no answer, leads to the login page.
MeAnswers(t) ==
    /\ tab[t].at = "me"
    /\ \/ /\ WhoAmI(t) # Nobody
          /\ tab' = [tab EXCEPT ![t].at = "identify", ![t].shown = WhoAmI(t),
                                ![t].moved = FALSE, ![t].nav = FALSE]
       \/ (WhoAmI(t) = Nobody \/ MayFail # {}) /\ Close(t)
    /\ UNCHANGED flows /\ Quiet

\* After "Izinkan" the page shows an error.
ErrorShown(t) == Close(t)

\* Defect for the checks: the request is not answered.
Unanswered(t) == UNCHANGED tab

\* What the caller makes of anything but a redirect: after the silent call
\* the page goes on to look the client up.
Refused(t) == IF tab[t].approved \/ tab[t].nav THEN ErrorShown(t) ELSE Goto(t, "lookup")

\* GET /clients/:id, which finds inactive clients too; or an error.
LookupAnswers(t) ==
    /\ tab[t].at = "lookup"
    /\ Goto(t, "shown") \/ (MayFail # {} /\ Close(t))
    /\ UNCHANGED flows /\ Quiet

\* handleAllow: the screen's account is not part of the request.
Allow(t) ==
    /\ tab[t].at = "shown"
    /\ tab' = [tab EXCEPT ![t].at = "identify", ![t].approved = TRUE]
    /\ allowed' = [allowed EXCEPT ![<<tab[t].shown, tab[t].client>>] = @ \cup tab[t].scopes]
    /\ UNCHANGED <<clock, store, browser, flows, events, strays, issued, kept, raced>>

\* handleDeny, or "Ganti akun".
Deny(t) ==
    /\ tab[t].at = "shown"
    /\ Close(t)
    /\ UNCHANGED flows /\ Quiet

-----------------------------------------------------------------------------
(* GET /oauth/authorize.                                                   *)

Fails(t, s) ==
    /\ s \in MayFail
    /\ Refused(t)
    /\ UNCHANGED flows /\ Quiet

\* Defect for the checks: where the request comes from is not looked at.
AdmittedAll(t) == TRUE

\* The guard on Origin and Referer: what says that consent was given has to come
\* from the page.  No navigation of a client's does: CORS_ORIGIN names no client.
Admitted(t) == tab[t].approved => ~tab[t].nav

\* The session is looked up in Redis only for want of a bearer token.
Identify(t) ==
    /\ tab[t].at = "identify"
    /\ \/ /\ Admitted(t)
          /\ tab' = [tab EXCEPT ![t].at = "expiry", ![t].who = Asker(t)]
          /\ UNCHANGED flows /\ Quiet
       \/ /\ ~Admitted(t)
          /\ Refused(t)
          /\ UNCHANGED flows /\ Quiet
       \/ /\ Admitted(t)
          /\ bearer[t] = Nobody \/ tab[t].nav
          /\ cookie # Nobody /\ Fails(t, "redis")

\* The password's expiry, also of an account the bearer token named, ends the
\* session of the cookie; nobody is redirected to the login page, which a fetch
\* takes for a failure.
CheckExpiry(t) ==
    LET x == tab[t].who \in expired
        after == TabsAfter(bearer, Nobody) IN
    /\ tab[t].at = "expiry"
    /\ \/ /\ tab[t].who # Nobody /\ ~x
          /\ Goto(t, "client")
          /\ UNCHANGED flows /\ Quiet
       \/ /\ tab[t].who = Nobody
          /\ Refused(t)
          /\ UNCHANGED flows /\ Quiet
       \/ /\ x
          /\ cookie' = Nobody
          /\ tab' = [after EXCEPT ![t] = IF tab[t].approved \/ tab[t].nav THEN Closed
                                         ELSE [after[t] EXCEPT !.at = "lookup"]]
          /\ UNCHANGED <<clock, store, bearer, flows, events, history>>
       \/ tab[t].who # Nobody /\ Fails(t, "db")
       \/ x /\ cookie # Nobody /\ Fails(t, "redis")

FindClient(t) ==
    /\ tab[t].at = "client"
    /\ \/ /\ IF tab[t].client \in active THEN Goto(t, "read") ELSE Refused(t)
          /\ UNCHANGED flows /\ Quiet
       \/ Fails(t, "db")

\* Consent on record, or asked for: by a redirect to the page, or an answer.
ReadConsent(t) ==
    LET s == Stored(tab[t].who, tab[t].client) IN
    /\ tab[t].at = "read"
    /\ \/ /\ tab' = [tab EXCEPT ![t].stored = s,
                                ![t].at = IF tab[t].approved THEN "write"
                                          ELSE IF Covers(s, tab[t].scopes) THEN "code"
                                          ELSE IF tab[t].nav THEN "me" ELSE "lookup"]
          /\ UNCHANGED flows /\ Quiet
       \/ Fails(t, "redis")

\* Defect for the checks: what was approved before is forgotten.
MergedAfresh(stored, requested) == requested

Merged(stored, requested) == stored \cup requested

\* Defect for the checks: the lifetime is added to what it was.
ExpiryLater(u, c) == clock + ConsentTTL + consent[<<u, c>>].till

Expiry(u, c) == clock + ConsentTTL

WriteConsent(t) ==
    LET u == tab[t].who
        c == tab[t].client IN
    /\ tab[t].at = "write"
    /\ \/ /\ consent' = [consent EXCEPT ![<<u, c>>] =
                             [scopes |-> Merged(tab[t].stored, tab[t].scopes),
                              till |-> Expiry(u, c)]]
          /\ Goto(t, "code")
          /\ strays' = IF tab[t].moved THEN strays \cup {<<u, c>>} ELSE strays
          /\ kept' = [kept EXCEPT ![<<u, c>>] =
                          [s \in Scopes |-> IF s \in tab[t].scopes THEN clock + ConsentTTL
                                            ELSE @[s]]]
          /\ raced' = IF \E x \in Tabs \ {t} : tab[x].at = "write" /\ tab[x].who = u
                                               /\ tab[x].client = c
                      THEN raced \cup {<<u, c>>} ELSE raced
          /\ UNCHANGED <<clock, expired, active, browser, flows, events, allowed, issued>>
       \/ Fails(t, "redis")

\* The client and its scopes are checked only now.
IssueCode(t) ==
    LET p == <<tab[t].who, tab[t].client>> IN
    /\ tab[t].at = "code"
    /\ \/ /\ tab[t].client \in active /\ tab[t].scopes \subseteq Registered
          /\ issued' = [issued EXCEPT ![p] = @ \cup Granted(tab[t].who, tab[t].scopes)]
          /\ Close(t)
          /\ UNCHANGED <<clock, store, browser, flows, events, allowed, strays, kept, raced>>
       \/ /\ ~(tab[t].client \in active /\ tab[t].scopes \subseteq Registered)
          /\ Refused(t)
          /\ UNCHANGED flows /\ Quiet
       \/ Fails(t, "db")

-----------------------------------------------------------------------------
(* The rest of the world.                                                  *)

Event == events < MaxEvents /\ events' = events + 1

Browser(b, k) ==
    /\ bearer' = b /\ cookie' = k
    /\ tab' = TabsAfter(b, k)
    /\ UNCHANGED <<clock, store, flows, history>>

\* A login in a tab; the cookie is every tab's.
Login(t, u) ==
    /\ tab[t] = Closed
    /\ Event
    /\ Browser([bearer EXCEPT ![t] = u], u)

\* POST /auth/logout and clearAuthStorage; consents stay.
Logout(t) ==
    /\ tab[t] = Closed /\ bearer[t] # Nobody
    /\ Browser([bearer EXCEPT ![t] = Nobody], Nobody)
    /\ Event

\* The access token ages out, or the tab is a new one.
BearerDies(t) ==
    /\ bearer[t] # Nobody
    /\ Browser([bearer EXCEPT ![t] = Nobody], cookie)
    /\ Event

PasswordExpires(u) ==
    /\ u \notin expired
    /\ Event
    /\ expired' = expired \cup {u}
    /\ UNCHANGED <<clock, consent, active, browser, tab, flows, history>>

Deactivate(c) ==
    /\ c \in active
    /\ Event
    /\ active' = active \ {c}
    /\ UNCHANGED <<clock, consent, expired, browser, tab, flows, history>>

Tick ==
    /\ clock < MaxTime
    /\ clock' = clock + 1
    /\ UNCHANGED <<store, browser, tab, flows, events, history>>

User(t) ==
    \/ \E c \in Clients, S \in SUBSET Scopes :
        \/ Open(t, c, S)
        \/ \E approved \in BOOLEAN : Navigate(t, c, S, approved)
    \/ Allow(t)
    \/ Deny(t)
    \/ \E u \in Users : Login(t, u)
    \/ Logout(t)

\* A step of the page or of the handler it waits for.
Resume(t) ==
    \/ MeAnswers(t)
    \/ LookupAnswers(t)
    \/ Identify(t)
    \/ CheckExpiry(t)
    \/ FindClient(t)
    \/ ReadConsent(t)
    \/ WriteConsent(t)
    \/ IssueCode(t)

World ==
    \/ \E t \in Tabs : BearerDies(t)
    \/ \E u \in Users : PasswordExpires(u)
    \/ \E c \in Clients : Deactivate(c)
    \/ Tick

Next == World \/ \E t \in Tabs : User(t) \/ Resume(t)

Spec == Init /\ [][Next]_vars

\* Express and the browser run what is ready to run.
FairSpec == Spec /\ \A t \in Tabs : WF_vars(Resume(t))

-----------------------------------------------------------------------------
(* Properties.                                                             *)

\* A client gets codes for the scopes its user allowed on a screen that named
\* that user, at some time (oauth.routes 149-170, 232-266), whatever a client's
\* navigation says, unless the tab's account changed behind such a screen.
CodesAreConsented ==
    \A p \in Users \X Clients : issued[p] \subseteq allowed[p] \/ p \in strays

\* Approvals are recorded for the account the screen named, although the screen
\* and the handler settle on their own who it is (AuthorizePage handleAllow;
\* auth.routes 867-903; oauth.routes 172-196), with the same reservation.
ConsentIsTheShownAccounts ==
    \A p \in Users \X Clients : consent[p].scopes \subseteq allowed[p] \/ p \in strays

\* An approval stays on record until its key expires, whatever is approved
\* later, unless two approvals overlapped between the read and the write back
\* (oauth.routes 232-241).
ApprovalsAreKept ==
    \A p \in (Users \X Clients) \ raced :
        {s \in Scopes : kept[p][s] > clock} \subseteq Stored(p[1], p[2])

\* A flow the user does not abandon comes to the screen, or to its end: the
\* redirect, the login page or an error (AuthorizePage init and handleAllow;
\* every path of the handler answers).
FlowsEnd ==
    \A t \in Tabs : (tab[t].at \notin {"closed", "shown"}) ~> (tab[t].at \in {"closed", "shown"})

=============================================================================
