--------------------------- MODULE ConsentProofs ---------------------------
(***************************************************************************)
(* Proofs about Consent, for every value of its constants: its types, that *)
(* approvals and codes are the ones their user allowed, and that approvals *)
(* stay on record.  A tab does not send along whom its screen named, so    *)
(* that the handler settles on the same account has to be followed from    *)
(* the screen to the write.                                                *)
(***************************************************************************)
EXTENDS Consent, TLAPS

-----------------------------------------------------------------------------
(* Types.                                                                  *)

Asking == {"me", "lookup", "shown"}
Calling == {"identify", "expiry", "client", "read", "write", "code"}
OpenTab == [at: Asking \cup Calling, client: Clients, scopes: SUBSET Scopes,
            shown: Account, moved: BOOLEAN, approved: BOOLEAN, nav: BOOLEAN,
            who: Account, stored: SUBSET Scopes]

\* A tab is closed or open, and the control point tells which.
LEMMA TabShapes ==
    /\ {Closed} \cup Page \cup Call = {Closed} \cup OpenTab
    /\ Closed.at = "closed"
    /\ \A q \in OpenTab : q.at # "closed" /\ q # Closed
<1>1. \A q : q \in Page \cup Call <=> q \in OpenTab
  BY DEF Page, Call, OpenTab, Asking, Calling
<1>2. Closed.at = "closed" /\ \A q \in OpenTab : q.at # "closed"
  BY DEF Closed, OpenTab, Asking, Calling
<1>3. QED
  BY <1>1, <1>2

LEMMA OpenTabs ==
    ASSUME ConsentTypeOK, NEW t \in Tabs, tab[t].at # "closed"
    PROVE  tab[t] \in OpenTab
<1>1. tab[t] \in {Closed} \cup OpenTab
  BY TabShapes DEF ConsentTypeOK
<1>2. QED
  BY <1>1, TabShapes

\* A tab that moves on keeps the tabs' type, and only moves itself.
LEMMA TabType ==
    ASSUME ConsentTypeOK, NEW t \in Tabs, NEW q \in OpenTab \cup {Closed},
           tab' = [tab EXCEPT ![t] = q]
    PROVE  /\ tab' \in [Tabs -> {Closed} \cup Page \cup Call]
           /\ tab'[t] = q
           /\ \A x \in Tabs \ {t} : tab'[x] = tab[x]
BY TabShapes DEF ConsentTypeOK

\* A change of the browser's accounts marks open tabs and no more.
LEMMA TabsAfterType ==
    ASSUME ConsentTypeOK, NEW b, NEW k
    PROVE  /\ TabsAfter(b, k) \in [Tabs -> {Closed} \cup Page \cup Call]
           /\ \A x \in Tabs :
                \/ /\ TabsAfter(b, k)[x] = tab[x]
                   /\ \/ tab[x] = Closed
                      \/ WhoAmI(x) = IF b[x] # Nobody THEN b[x] ELSE k
                \/ /\ tab[x] \in OpenTab
                   /\ TabsAfter(b, k)[x] = [tab[x] EXCEPT !.moved = TRUE]
<1> SUFFICES ASSUME NEW x \in Tabs
             PROVE  /\ TabsAfter(b, k)[x] \in {Closed} \cup OpenTab
                    /\ \/ /\ TabsAfter(b, k)[x] = tab[x]
                          /\ \/ tab[x] = Closed
                             \/ WhoAmI(x) = IF b[x] # Nobody THEN b[x] ELSE k
                       \/ /\ tab[x] \in OpenTab
                          /\ TabsAfter(b, k)[x] = [tab[x] EXCEPT !.moved = TRUE]
  <2>1. TabsAfter(b, k) = [x \in Tabs |-> TabsAfter(b, k)[x]]
    BY DEF TabsAfter
  <2>2. QED
    BY <2>1, TabShapes
<1>1. tab[x] \in {Closed} \cup OpenTab
  BY TabShapes DEF ConsentTypeOK
<1>2. tab[x] \in OpenTab => [tab[x] EXCEPT !.moved = TRUE] \in OpenTab
  BY DEF OpenTab
<1>3. QED
  BY <1>1, <1>2 DEF TabsAfter

\* Identities are accounts.
LEMMA AccountType ==
    ASSUME ConsentTypeOK, NEW t \in Tabs
    PROVE  WhoAmI(t) \in Account /\ Asker(t) \in Account
BY DEF ConsentTypeOK, WhoAmI, Asker

\* A refused call closes the tab or goes back to the page.
LEMMA RefusedType ==
    ASSUME ConsentTypeOK, NEW t \in Tabs, tab[t].at # "closed", Refused(t)
    PROVE  /\ tab' \in [Tabs -> {Closed} \cup Page \cup Call]
           /\ \A x \in Tabs \ {t} : tab'[x] = tab[x]
           /\ \/ tab'[t] = Closed
              \/ /\ tab'[t] = [tab[t] EXCEPT !.at = "lookup"]
                 /\ ~tab[t].approved /\ ~tab[t].nav
<1>1. tab[t] \in OpenTab
  BY OpenTabs
<1>2. [tab[t] EXCEPT !.at = "lookup"] \in OpenTab
  BY <1>1 DEF OpenTab, Asking
<1>3. CASE tab[t].approved \/ tab[t].nav
  BY <1>3, TabType DEF Refused, ErrorShown, Close
<1>4. CASE ~(tab[t].approved \/ tab[t].nav)
  <2>1. tab' = [tab EXCEPT ![t] = [tab[t] EXCEPT !.at = "lookup"]]
    BY <1>4 DEF Refused, Goto, ConsentTypeOK
  <2>2. QED
    BY <1>2, <1>4, <2>1, TabType
<1>5. QED
  BY <1>3, <1>4

\* A tab that moves to another step of its page or call.
LEMMA GotoType ==
    ASSUME ConsentTypeOK, NEW t \in Tabs, tab[t].at # "closed",
           NEW at \in Asking \cup Calling, Goto(t, at)
    PROVE  /\ tab' \in [Tabs -> {Closed} \cup Page \cup Call]
           /\ \A x \in Tabs \ {t} : tab'[x] = tab[x]
           /\ tab'[t] = [tab[t] EXCEPT !.at = at]
<1>1. tab[t] \in OpenTab
  BY OpenTabs
<1>2. [tab[t] EXCEPT !.at = at] \in OpenTab
  BY <1>1 DEF OpenTab
<1>3. tab' = [tab EXCEPT ![t] = [tab[t] EXCEPT !.at = at]]
  BY DEF Goto, ConsentTypeOK
<1>4. QED
  BY <1>2, <1>3, TabType

\* Until a client is looked for the handler has made sure who is asking.
AskerKnown ==
    \A t \in Tabs : tab[t].at \in {"client", "read", "write", "code"} => tab[t].who \in Users

\* The user's steps preserve the types.
LEMMA UserType ==
    ASSUME ConsentTypeOK, NEW t \in Tabs, User(t)
    PROVE  ConsentTypeOK'
<1> USE DEF store, browser, history
<1>1. ASSUME NEW c \in Clients, NEW S \in SUBSET Scopes, NEW nav \in BOOLEAN,
             NEW at \in {"me", "identify"}, NEW approved \in BOOLEAN,
             Begin(t, at, c, S, approved, nav)
      PROVE  ConsentTypeOK'
  <2>1. [at |-> at, client |-> c, scopes |-> S, shown |-> Nobody, moved |-> FALSE,
         approved |-> approved, nav |-> nav, who |-> Nobody, stored |-> {}] \in OpenTab
    BY DEF OpenTab, Asking, Calling, Account
  <2>2. tab' \in [Tabs -> {Closed} \cup Page \cup Call]
    BY <1>1, <2>1, TabType DEF Begin
  <2>3. flows' \in 0 .. MaxFlows
    BY <1>1, ConsentBoundsAssumption DEF Begin, ConsentTypeOK
  <2>4. QED
    BY <1>1, <2>2, <2>3 DEF Begin, Quiet, ConsentTypeOK
<1>2. ASSUME Allow(t)
      PROVE  ConsentTypeOK'
  <2>1. tab[t] \in OpenTab
    BY <1>2, OpenTabs DEF Allow
  <2>2. [tab[t] EXCEPT !.at = "identify", !.approved = TRUE] \in OpenTab
    BY <2>1 DEF OpenTab, Calling
  <2>3. tab' = [tab EXCEPT ![t] = [tab[t] EXCEPT !.at = "identify", !.approved = TRUE]]
    BY <1>2 DEF Allow, ConsentTypeOK
  <2>4. tab' \in [Tabs -> {Closed} \cup Page \cup Call]
    BY <2>2, <2>3, TabType
  <2>5. allowed' \in [Users \X Clients -> SUBSET Scopes]
    BY <1>2, <2>1 DEF Allow, ConsentTypeOK, OpenTab
  <2>6. QED
    BY <1>2, <2>4, <2>5 DEF Allow, ConsentTypeOK
<1>3. ASSUME Deny(t)
      PROVE  ConsentTypeOK'
  <2>1. tab' \in [Tabs -> {Closed} \cup Page \cup Call]
    BY <1>3, TabType DEF Deny, Close
  <2>2. QED
    BY <1>3, <2>1 DEF Deny, Quiet, ConsentTypeOK
<1>4. ASSUME NEW b, NEW k, Browser(b, k), Event, b \in [Tabs -> Account], k \in Account
      PROVE  ConsentTypeOK'
  <2>1. tab' \in [Tabs -> {Closed} \cup Page \cup Call]
    BY <1>4, TabsAfterType DEF Browser
  <2>2. events' \in 0 .. MaxEvents
    BY <1>4, ConsentBoundsAssumption DEF Event, ConsentTypeOK
  <2>3. QED
    BY <1>4, <2>1, <2>2 DEF Browser, ConsentTypeOK
<1>5. ASSUME NEW u \in Users, Login(t, u)
      PROVE  ConsentTypeOK'
  <2>1. [bearer EXCEPT ![t] = u] \in [Tabs -> Account]
    BY DEF ConsentTypeOK, Account
  <2>2. QED
    BY <1>5, <2>1, <1>4 DEF Login, Account
<1>6. ASSUME Logout(t)
      PROVE  ConsentTypeOK'
  <2>1. [bearer EXCEPT ![t] = Nobody] \in [Tabs -> Account]
    BY DEF ConsentTypeOK, Account
  <2>2. QED
    BY <1>6, <2>1, <1>4 DEF Logout, Account
<1>7. QED
  BY <1>1, <1>2, <1>3, <1>5, <1>6 DEF User, Open, Navigate

\* So do the steps of the page and of the handler.
LEMMA ResumeType ==
    ASSUME ConsentTypeOK, AskerKnown, NEW t \in Tabs, Resume(t)
    PROVE  ConsentTypeOK'
<1> USE DEF store, browser, history
<1>1. ASSUME tab' \in [Tabs -> {Closed} \cup Page \cup Call], UNCHANGED flows, Quiet
      PROVE  ConsentTypeOK'
  BY <1>1 DEF Quiet, ConsentTypeOK
<1>2. tab[t].at # "closed"
  BY DEF Resume, MeAnswers, LookupAnswers, Identify, CheckExpiry, FindClient, ReadConsent,
     WriteConsent, IssueCode
<1>3. tab[t] \in OpenTab
  BY <1>2, OpenTabs
<1>4. ASSUME NEW s, Fails(t, s)
      PROVE  ConsentTypeOK'
  BY <1>4, <1>1, <1>2, RefusedType DEF Fails
<1>5. CASE MeAnswers(t)
  <2>1. CASE Close(t)
    BY <1>5, <2>1, <1>1, TabType DEF MeAnswers, Close
  <2>2. CASE tab' = [tab EXCEPT ![t].at = "identify", ![t].shown = WhoAmI(t),
                               ![t].moved = FALSE, ![t].nav = FALSE]
    <3>1. [tab[t] EXCEPT !.at = "identify", !.shown = WhoAmI(t), !.moved = FALSE,
                        !.nav = FALSE] \in OpenTab
      BY <1>3, AccountType DEF OpenTab, Calling
    <3>2. tab' = [tab EXCEPT ![t] = [tab[t] EXCEPT !.at = "identify", !.shown = WhoAmI(t),
                                                  !.moved = FALSE, !.nav = FALSE]]
      BY <2>2 DEF ConsentTypeOK
    <3>3. QED
      BY <1>5, <3>1, <3>2, <1>1, TabType DEF MeAnswers
  <2>3. QED
    BY <1>5, <2>1, <2>2 DEF MeAnswers
<1>6. CASE LookupAnswers(t)
  BY <1>6, <1>1, <1>2, GotoType, TabType DEF LookupAnswers, Close, Asking
<1>7. CASE Identify(t)
  <2>1. CASE tab' = [tab EXCEPT ![t].at = "expiry", ![t].who = Asker(t)]
    <3>1. [tab[t] EXCEPT !.at = "expiry", !.who = Asker(t)] \in OpenTab
      BY <1>3, AccountType DEF OpenTab, Calling
    <3>2. tab' = [tab EXCEPT ![t] = [tab[t] EXCEPT !.at = "expiry", !.who = Asker(t)]]
      BY <2>1 DEF ConsentTypeOK
    <3>3. UNCHANGED flows /\ Quiet
      BY <1>7 DEF Identify, Fails
    <3>4. QED
      BY <3>1, <3>2, <3>3, <1>1, TabType
  <2>2. CASE Refused(t) /\ UNCHANGED flows /\ Quiet
    BY <2>2, <1>1, <1>2, RefusedType
  <2>3. QED
    BY <1>7, <2>1, <2>2, <1>4 DEF Identify
<1>8. CASE CheckExpiry(t)
  <2>1. CASE (Goto(t, "client") \/ Refused(t)) /\ UNCHANGED flows /\ Quiet
    BY <2>1, <1>1, <1>2, GotoType, RefusedType DEF Calling
  <2>2. CASE /\ tab' = [TabsAfter(bearer, Nobody) EXCEPT ![t] =
                           IF tab[t].approved \/ tab[t].nav THEN Closed
                           ELSE [TabsAfter(bearer, Nobody)[t] EXCEPT !.at = "lookup"]]
             /\ cookie' = Nobody
             /\ UNCHANGED <<clock, store, bearer, flows, events, history>>
    <3> DEFINE after == TabsAfter(bearer, Nobody)
    <3>1. after \in [Tabs -> {Closed} \cup OpenTab]
      BY TabsAfterType, TabShapes
    <3>2. after[t] \in OpenTab
      <4>1. [tab[t] EXCEPT !.moved = TRUE] \in OpenTab
        BY <1>3 DEF OpenTab
      <4>2. \/ TabsAfter(bearer, Nobody)[t] = tab[t]
            \/ TabsAfter(bearer, Nobody)[t] = [tab[t] EXCEPT !.moved = TRUE]
        BY TabsAfterType
      <4>3. QED
        BY <1>3, <4>1, <4>2
    <3> HIDE DEF after
    <3>3. [after[t] EXCEPT !.at = "lookup"] \in OpenTab
      BY <3>2 DEF OpenTab, Asking
    <3>4. tab' \in [Tabs -> {Closed} \cup OpenTab]
      BY <2>2, <3>1, <3>3 DEF after
    <3>5. QED
      BY <2>2, <3>4, TabShapes DEF ConsentTypeOK, Account
  <2>3. QED
    BY <1>8, <2>1, <2>2, <1>4 DEF CheckExpiry
<1>9. CASE FindClient(t)
  BY <1>9, <1>1, <1>2, <1>4, GotoType, RefusedType DEF FindClient, Calling
<1>10. CASE ReadConsent(t)
  <2> DEFINE s == Stored(tab[t].who, tab[t].client)
             at == IF tab[t].approved THEN "write"
                   ELSE IF Covers(s, tab[t].scopes) THEN "code"
                   ELSE IF tab[t].nav THEN "me" ELSE "lookup"
  <2>1. s \in SUBSET Scopes
    <3>1. tab[t].who \in Users /\ tab[t].client \in Clients
      BY <1>10, <1>3 DEF ReadConsent, AskerKnown, OpenTab
    <3>2. QED
      BY <3>1 DEF Stored, ConsentTypeOK
  <2>2. at \in Asking \cup Calling
    BY DEF Asking, Calling
  <2>3. CASE tab' = [tab EXCEPT ![t].stored = s, ![t].at = at]
    <3> HIDE DEF s, at
    <3>1. [tab[t] EXCEPT !.stored = s, !.at = at] \in OpenTab
      BY <1>3, <2>1, <2>2 DEF OpenTab
    <3>2. tab' = [tab EXCEPT ![t] = [tab[t] EXCEPT !.stored = s, !.at = at]]
      BY <2>3 DEF ConsentTypeOK
    <3>3. UNCHANGED flows /\ Quiet
      BY <1>10 DEF ReadConsent, Fails
    <3>4. QED
      BY <3>1, <3>2, <3>3, <1>1, TabType
  <2>4. QED
    BY <1>10, <2>3, <1>4 DEF ReadConsent
<1>11. CASE WriteConsent(t) /\ ~Fails(t, "redis")
  <2> DEFINE p == <<tab[t].who, tab[t].client>>
  <2>1. p \in Users \X Clients
    BY <1>11, <1>3 DEF WriteConsent, AskerKnown, OpenTab
  <2>2. tab' \in [Tabs -> {Closed} \cup Page \cup Call]
    BY <1>11, <1>2, GotoType DEF WriteConsent, Calling
  <2>3. clock + ConsentTTL \in Time
    BY ConsentBoundsAssumption DEF ConsentTypeOK, Time
  <2>4. [scopes |-> Merged(tab[t].stored, tab[t].scopes),
         till |-> Expiry(tab[t].who, tab[t].client)] \in [scopes: SUBSET Scopes, till: Time]
    BY <1>3, <2>3 DEF OpenTab, Merged, Expiry
  <2>5. consent' \in [Users \X Clients -> [scopes: SUBSET Scopes, till: Time]]
    <3>1. consent' = [consent EXCEPT ![p] =
                          [scopes |-> Merged(tab[t].stored, tab[t].scopes),
                           till |-> Expiry(tab[t].who, tab[t].client)]]
      BY <1>11 DEF WriteConsent
    <3>2. QED
      BY <2>4, <3>1 DEF ConsentTypeOK
  <2>6. kept' \in [Users \X Clients -> [Scopes -> Time]]
    <3>1. kept' = [kept EXCEPT ![p] =
                       [s \in Scopes |-> IF s \in tab[t].scopes THEN clock + ConsentTTL
                                         ELSE kept[p][s]]]
      BY <1>11, <2>1 DEF WriteConsent, ConsentTypeOK
    <3>2. [s \in Scopes |-> IF s \in tab[t].scopes THEN clock + ConsentTTL ELSE kept[p][s]]
              \in [Scopes -> Time]
      BY <2>1, <2>3 DEF ConsentTypeOK
    <3>3. QED
      BY <3>1, <3>2 DEF ConsentTypeOK
  <2>7. strays' \subseteq Users \X Clients /\ raced' \subseteq Users \X Clients
    BY <1>11, <2>1 DEF WriteConsent, ConsentTypeOK
  <2>8. QED
    BY <1>11, <2>2, <2>5, <2>6, <2>7 DEF WriteConsent, ConsentTypeOK
<1>12. CASE IssueCode(t)
  <2>1. CASE UNCHANGED flows /\ Quiet
    BY <1>12, <2>1, <1>1, <1>2, <1>4, RefusedType, TabType DEF IssueCode, Close
  <2>2. CASE /\ Close(t)
             /\ issued' = [issued EXCEPT ![<<tab[t].who, tab[t].client>>] =
                               @ \cup Granted(tab[t].who, tab[t].scopes)]
             /\ UNCHANGED <<clock, store, browser, flows, events, allowed, strays, kept, raced>>
    <3>1. Granted(tab[t].who, tab[t].scopes) \subseteq Scopes
      BY <1>3 DEF Granted, OpenTab
    <3>2. tab' \in [Tabs -> {Closed} \cup Page \cup Call]
      BY <2>2, TabType DEF Close
    <3>3. issued' \in [Users \X Clients -> SUBSET Scopes]
      BY <2>2, <3>1 DEF ConsentTypeOK
    <3>4. QED
      BY <2>2, <3>2, <3>3 DEF ConsentTypeOK
  <2>3. QED
    BY <1>12, <2>1, <2>2 DEF IssueCode, Fails
<1>13. QED
  BY <1>4, <1>5, <1>6, <1>7, <1>8, <1>9, <1>10, <1>11, <1>12 DEF Resume

\* And so does the rest of the world.
LEMMA WorldType ==
    ASSUME ConsentTypeOK, World
    PROVE  ConsentTypeOK'
<1> USE DEF store, browser, history
<1>1. Event => events' \in 0 .. MaxEvents
  BY ConsentBoundsAssumption DEF Event, ConsentTypeOK
<1>2. ASSUME NEW t \in Tabs, BearerDies(t)
      PROVE  ConsentTypeOK'
  <2>1. [bearer EXCEPT ![t] = Nobody] \in [Tabs -> Account]
    BY DEF ConsentTypeOK, Account
  <2>2. tab' \in [Tabs -> {Closed} \cup Page \cup Call]
    BY <1>2, TabsAfterType DEF BearerDies, Browser
  <2>3. QED
    BY <1>1, <1>2, <2>1, <2>2 DEF BearerDies, Browser, ConsentTypeOK
<1>3. ASSUME NEW u \in Users, PasswordExpires(u)
      PROVE  ConsentTypeOK'
  BY <1>1, <1>3 DEF PasswordExpires, ConsentTypeOK
<1>4. ASSUME NEW c \in Clients, Deactivate(c)
      PROVE  ConsentTypeOK'
  BY <1>1, <1>4 DEF Deactivate, ConsentTypeOK
<1>5. CASE Tick
  <2>1. clock' \in 0 .. MaxTime
    BY <1>5, ConsentBoundsAssumption DEF Tick, ConsentTypeOK
  <2>2. QED
    BY <1>5, <2>1 DEF Tick, ConsentTypeOK
<1>6. QED
  BY <1>2, <1>3, <1>4, <1>5 DEF World

-----------------------------------------------------------------------------
(* Whose consent it is.                                                    *)

\* The scopes are ones the user allowed to the client, but for strays.
Consented(u, c, S) == S \subseteq allowed[<<u, c>>] \/ <<u, c>> \in strays

\* What a tab is good for.  A page that has named an account names the tab's
\* account until it is marked as moved, and so does the handler it calls; what
\* is about to be written or issued has been allowed.
TabInv(t) ==
    LET q == tab[t] IN
    q.at # "closed" =>
        /\ q.at \in Asking => ~q.approved
        /\ q.nav /\ q.approved => q.at = "identify"
        /\ q.at \in {"lookup", "shown"} => ~q.nav
        /\ q.at # "me" /\ ~q.nav =>
            /\ q.shown \in Users
            /\ ~q.moved => WhoAmI(t) = q.shown
        /\ q.approved /\ ~q.nav => q.scopes \subseteq allowed[<<q.shown, q.client>>]
        /\ q.at \in Calling \ {"identify"} /\ ~q.nav /\ ~q.moved => q.who = q.shown
        /\ q.at \in {"client", "read", "write", "code"} => q.who \in Users
        /\ q.at = "write" => q.approved /\ Consented(q.who, q.client, q.stored)
        /\ q.at = "code" => Consented(q.who, q.client, q.scopes)

ConsentInv ==
    /\ CodesAreConsented
    /\ ConsentIsTheShownAccounts
    /\ \A t \in Tabs : TabInv(t)

\* Allowances and strays only grow.
OnlyGrow ==
    /\ \A p \in Users \X Clients : allowed[p] \subseteq allowed'[p]
    /\ strays \subseteq strays'

LEMMA AskerIsKnown ==
    ASSUME ConsentInv
    PROVE  AskerKnown
BY DEF ConsentInv, TabInv, AskerKnown

\* A tab that waits keeps its invariant while its account stays, and also when
\* it is marked as moved.
LEMMA WaitingTab ==
    ASSUME ConsentTypeOK, OnlyGrow, NEW x \in Tabs, TabInv(x),
           \/ tab'[x] = tab[x] /\ (tab[x] = Closed \/ WhoAmI(x)' = WhoAmI(x))
           \/ tab[x] \in OpenTab /\ tab'[x] = [tab[x] EXCEPT !.moved = TRUE]
    PROVE  TabInv(x)'
<1>1. CASE tab[x] = Closed
  BY <1>1, TabShapes DEF TabInv
<1>2. CASE tab[x] \in OpenTab
  <2> DEFINE q == tab[x]
             n == tab'[x]
  <2>1. /\ n.at = q.at /\ n.nav = q.nav /\ n.approved = q.approved /\ n.shown = q.shown
        /\ n.client = q.client /\ n.scopes = q.scopes /\ n.stored = q.stored
        /\ n.who = q.who /\ n.moved \in BOOLEAN
        /\ ~n.moved => ~q.moved /\ WhoAmI(x)' = WhoAmI(x)
    BY <1>2, TabShapes DEF OpenTab
  <2>2. q.client \in Clients /\ (q.at # "closed")
    BY <1>2, TabShapes DEF OpenTab
  <2>3. q.approved /\ ~q.nav => q.shown \in Users
    BY <2>2 DEF TabInv, Asking
  <2>4. q.approved /\ ~q.nav => q.scopes \subseteq allowed'[<<q.shown, q.client>>]
    BY <2>2, <2>3 DEF TabInv, OnlyGrow
  <2>5. \A S : q.who \in Users /\ Consented(q.who, q.client, S) =>
             S \subseteq allowed'[<<q.who, q.client>>] \/ <<q.who, q.client>> \in strays'
    BY <2>2 DEF Consented, OnlyGrow
  <2>6. /\ q.at = "write" => Consented(q.who, q.client, q.stored)'
        /\ q.at = "code" => Consented(q.who, q.client, q.scopes)'
    <3>1. /\ q.at = "write" => q.who \in Users /\ Consented(q.who, q.client, q.stored)
          /\ q.at = "code" => q.who \in Users /\ Consented(q.who, q.client, q.scopes)
      BY <2>2 DEF TabInv
    <3>2. QED
      BY <2>1, <2>5, <3>1 DEF Consented
  <2>7. QED
    BY <2>1, <2>2, <2>4, <2>6 DEF TabInv
<1>3. QED
  BY <1>1, <1>2, TabShapes DEF ConsentTypeOK

\* A step of one tab that leaves the browser's accounts alone.
LEMMA OneTab ==
    ASSUME ConsentTypeOK, ConsentInv, OnlyGrow, NEW t \in Tabs, TabInv(t)',
           \A x \in Tabs \ {t} : tab'[x] = tab[x], UNCHANGED browser
    PROVE  \A x \in Tabs : TabInv(x)'
<1>1. \A x \in Tabs : WhoAmI(x)' = WhoAmI(x)
  BY DEF browser, WhoAmI
<1>2. QED
  BY <1>1, WaitingTab DEF ConsentInv

\* Records and codes, when neither changes.
LEMMA RecordsKept ==
    ASSUME ConsentTypeOK, ConsentInv, OnlyGrow
    PROVE  /\ issued' = issued => CodesAreConsented'
           /\ consent' = consent => ConsentIsTheShownAccounts'
BY DEF ConsentInv, CodesAreConsented, ConsentIsTheShownAccounts, OnlyGrow

\* A call that is refused goes back to a page that still names its account.
LEMMA RefusedTab ==
    ASSUME ConsentTypeOK, ConsentInv, NEW t \in Tabs, tab[t].at \in Calling, Refused(t),
           UNCHANGED browser
    PROVE  TabInv(t)'
<1> USE DEF Calling
<1>1. tab[t] \in OpenTab
  BY OpenTabs
<1>2. CASE tab'[t] = Closed
  BY <1>2, TabShapes DEF TabInv
<1>3. CASE tab'[t] = [tab[t] EXCEPT !.at = "lookup"] /\ ~tab[t].approved /\ ~tab[t].nav
  <2>1. WhoAmI(t)' = WhoAmI(t)
    BY DEF browser, WhoAmI
  <2>2. /\ tab[t].shown \in Users
        /\ ~tab[t].moved => WhoAmI(t) = tab[t].shown
    BY <1>3 DEF ConsentInv, TabInv
  <2>3. /\ tab'[t].at = "lookup" /\ tab'[t].nav = tab[t].nav
        /\ tab'[t].approved = tab[t].approved /\ tab'[t].shown = tab[t].shown
        /\ tab'[t].moved = tab[t].moved
    BY <1>1, <1>3 DEF OpenTab
  <2>4. QED
    BY <1>3, <2>1, <2>2, <2>3 DEF TabInv
<1>4. QED
  BY <1>2, <1>3, RefusedType

\* A step of one tab that records nothing.
LEMMA QuietStep ==
    ASSUME ConsentTypeOK, ConsentInv, NEW t \in Tabs, Quiet, TabInv(t)',
           \A x \in Tabs \ {t} : tab'[x] = tab[x]
    PROVE  ConsentInv'
<1>1. OnlyGrow /\ UNCHANGED browser /\ issued' = issued /\ consent' = consent
  BY DEF Quiet, history, store, OnlyGrow
<1>2. QED
  BY <1>1, OneTab, RecordsKept DEF ConsentInv

\* A change of the browser's accounts marks the tabs whose account it changes.
LEMMA BrowserStep ==
    ASSUME ConsentTypeOK, ConsentInv, NEW x \in Tabs, OnlyGrow,
           tab'[x] = TabsAfter(bearer', cookie')[x]
    PROVE  TabInv(x)'
<1>1. PICK b, k : b = bearer' /\ k = cookie'
  OBVIOUS
<1>2. \/ /\ tab'[x] = tab[x]
         /\ tab[x] = Closed \/ WhoAmI(x) = IF b[x] # Nobody THEN b[x] ELSE k
      \/ tab[x] \in OpenTab /\ tab'[x] = [tab[x] EXCEPT !.moved = TRUE]
  BY <1>1, TabsAfterType
<1>3. WhoAmI(x)' = IF b[x] # Nobody THEN b[x] ELSE k
  BY <1>1 DEF WhoAmI
<1>4. QED
  BY <1>2, <1>3, WaitingTab DEF ConsentInv

\* The user's steps keep the invariant.
LEMMA UserStep ==
    ASSUME ConsentTypeOK, ConsentInv, NEW t \in Tabs, User(t)
    PROVE  ConsentInv'
<1> USE DEF Asking, Calling
<1>1. ASSUME NEW c \in Clients, NEW S \in SUBSET Scopes,
             Open(t, c, S) \/ \E approved \in BOOLEAN : Navigate(t, c, S, approved)
      PROVE  ConsentInv'
  <2>1. PICK at \in {"me", "identify"}, approved \in BOOLEAN, nav \in BOOLEAN :
            /\ Begin(t, at, c, S, approved, nav)
            /\ at = "identify" => nav
            /\ at = "me" => ~approved
    BY <1>1 DEF Open, Navigate
  <2> DEFINE q == [at |-> at, client |-> c, scopes |-> S, shown |-> Nobody,
                   moved |-> FALSE, approved |-> approved, nav |-> nav, who |-> Nobody,
                   stored |-> {}]
  <2>2. q \in OpenTab
    BY DEF OpenTab, Account
  <2>3. tab'[t] = q /\ \A x \in Tabs \ {t} : tab'[x] = tab[x]
    BY <2>1, <2>2, TabType DEF Begin
  <2>4. TabInv(t)'
    BY <2>1, <2>3 DEF TabInv
  <2>5. QED
    BY <2>1, <2>3, <2>4, QuietStep DEF Begin
<1>2. ASSUME Allow(t)
      PROVE  ConsentInv'
  <2>1. tab[t] \in OpenTab /\ tab[t].at = "shown"
    BY <1>2, OpenTabs DEF Allow
  <2>2. /\ tab[t].shown \in Users /\ ~tab[t].nav
        /\ ~tab[t].moved => WhoAmI(t) = tab[t].shown
    BY <2>1 DEF ConsentInv, TabInv
  <2>3. /\ tab'[t] = [tab[t] EXCEPT !.at = "identify", !.approved = TRUE]
        /\ \A x \in Tabs \ {t} : tab'[x] = tab[x]
    BY <1>2 DEF Allow, ConsentTypeOK
  <2>4. /\ tab'[t].at = "identify" /\ tab'[t].approved /\ tab'[t].nav = tab[t].nav
        /\ tab'[t].shown = tab[t].shown /\ tab'[t].client = tab[t].client
        /\ tab'[t].scopes = tab[t].scopes /\ tab'[t].moved = tab[t].moved
    BY <2>1, <2>3 DEF OpenTab
  <2>5. UNCHANGED browser /\ WhoAmI(t)' = WhoAmI(t)
    BY <1>2 DEF Allow, browser, WhoAmI
  <2>6. <<tab[t].shown, tab[t].client>> \in Users \X Clients
    BY <2>1, <2>2 DEF OpenTab
  <2>7. OnlyGrow /\ tab[t].scopes \subseteq allowed'[<<tab[t].shown, tab[t].client>>]
    BY <1>2, <2>6 DEF Allow, OnlyGrow, ConsentTypeOK
  <2>8. TabInv(t)'
    BY <2>2, <2>4, <2>5, <2>7 DEF TabInv
  <2>9. issued' = issued /\ consent' = consent
    BY <1>2 DEF Allow, store
  <2>10. QED
    BY <2>3, <2>5, <2>7, <2>8, <2>9, OneTab, RecordsKept DEF ConsentInv
<1>3. ASSUME Deny(t)
      PROVE  ConsentInv'
  <2>1. tab'[t] = Closed /\ \A x \in Tabs \ {t} : tab'[x] = tab[x]
    BY <1>3, TabType DEF Deny, Close
  <2>2. TabInv(t)'
    BY <2>1, TabShapes DEF TabInv
  <2>3. QED
    BY <1>3, <2>1, <2>2, QuietStep DEF Deny
<1>4. ASSUME NEW u \in Users, Login(t, u) \/ Logout(t)
      PROVE  ConsentInv'
  <2>1. /\ OnlyGrow /\ issued' = issued /\ consent' = consent
        /\ tab' = TabsAfter(bearer', cookie')
    BY <1>4 DEF Login, Logout, Browser, history, store, OnlyGrow
  <2>2. QED
    BY <2>1, BrowserStep, RecordsKept DEF ConsentInv
<1>5. ASSUME Logout(t)
      PROVE  ConsentInv'
  <2>1. /\ OnlyGrow /\ issued' = issued /\ consent' = consent
        /\ tab' = TabsAfter(bearer', cookie')
    BY <1>5 DEF Logout, Browser, history, store, OnlyGrow
  <2>2. QED
    BY <2>1, BrowserStep, RecordsKept DEF ConsentInv
<1>6. QED
  BY <1>1, <1>2, <1>3, <1>4, <1>5 DEF User

\* The page's own steps keep the invariant.
LEMMA PageStep ==
    ASSUME ConsentTypeOK, ConsentInv, NEW t \in Tabs, MeAnswers(t) \/ LookupAnswers(t)
    PROVE  ConsentInv'
<1> USE DEF Asking, Calling
<1>1. tab[t] \in OpenTab /\ tab[t].at \in {"me", "lookup"}
  BY OpenTabs DEF MeAnswers, LookupAnswers
<1>2. Quiet /\ WhoAmI(t)' = WhoAmI(t)
  BY DEF MeAnswers, LookupAnswers, Quiet, browser, WhoAmI
<1>3. TabInv(t)
  BY DEF ConsentInv
<1>4. CASE Close(t)
  <2>1. tab'[t] = Closed /\ \A x \in Tabs \ {t} : tab'[x] = tab[x]
    BY <1>4, TabType DEF Close
  <2>2. TabInv(t)'
    BY <2>1, TabShapes DEF TabInv
  <2>3. QED
    BY <1>2, <2>1, <2>2, QuietStep
<1>5. CASE LookupAnswers(t) /\ Goto(t, "shown")
  <2>1. /\ tab'[t] = [tab[t] EXCEPT !.at = "shown"]
        /\ \A x \in Tabs \ {t} : tab'[x] = tab[x]
    BY <1>1, <1>5, GotoType
  <2>2. /\ tab'[t].at = "shown" /\ tab'[t].nav = tab[t].nav
        /\ tab'[t].approved = tab[t].approved /\ tab'[t].shown = tab[t].shown
        /\ tab'[t].moved = tab[t].moved
    BY <1>1, <2>1 DEF OpenTab
  <2>3. TabInv(t)'
    BY <1>2, <1>3, <1>5, <2>2 DEF TabInv, LookupAnswers
  <2>4. QED
    BY <1>2, <2>1, <2>3, QuietStep
<1>6. CASE MeAnswers(t) /\ ~Close(t)
  <2>1. /\ tab'[t] = [tab[t] EXCEPT !.at = "identify", !.shown = WhoAmI(t),
                                    !.moved = FALSE, !.nav = FALSE]
        /\ \A x \in Tabs \ {t} : tab'[x] = tab[x]
        /\ WhoAmI(t) # Nobody /\ tab[t].at = "me"
    BY <1>6 DEF MeAnswers, ConsentTypeOK
  <2>2. /\ tab'[t].at = "identify" /\ ~tab'[t].nav /\ ~tab'[t].moved
        /\ tab'[t].approved = tab[t].approved /\ tab'[t].shown = WhoAmI(t)
    BY <1>1, <2>1 DEF OpenTab
  <2>3. WhoAmI(t) \in Users /\ ~tab[t].approved
    BY <1>1, <1>3, <2>1, AccountType DEF Account, TabInv
  <2>4. TabInv(t)'
    BY <1>2, <2>2, <2>3 DEF TabInv
  <2>5. QED
    BY <1>2, <2>1, <2>4, QuietStep
<1>7. QED
  BY <1>4, <1>5, <1>6 DEF LookupAnswers

\* A call that fails or is refused keeps it.
LEMMA RefusedStep ==
    ASSUME ConsentTypeOK, ConsentInv, NEW t \in Tabs, tab[t].at \in Calling, Refused(t), Quiet
    PROVE  ConsentInv'
<1>1. UNCHANGED browser
  BY DEF Quiet
<1>2. tab[t].at # "closed"
  BY DEF Calling
<1>3. TabInv(t)'
  BY <1>1, RefusedTab
<1>4. QED
  BY <1>2, <1>3, RefusedType, QuietStep

\* A handler that goes on to its next step and has learnt nothing new keeps it.
LEMMA GoesOn ==
    ASSUME ConsentTypeOK, ConsentInv, NEW t \in Tabs, Quiet,
           \/ tab[t].at = "expiry" /\ tab[t].who # Nobody /\ Goto(t, "client")
           \/ tab[t].at = "client" /\ Goto(t, "read")
    PROVE  ConsentInv'
<1> USE DEF Asking, Calling
<1>1. tab[t] \in OpenTab
  BY OpenTabs
<1>2. WhoAmI(t)' = WhoAmI(t) /\ allowed' = allowed /\ TabInv(t)
  BY DEF Quiet, browser, history, WhoAmI, ConsentInv
<1>3. PICK at \in {"client", "read"} :
          /\ tab'[t] = [tab[t] EXCEPT !.at = at]
          /\ \A x \in Tabs \ {t} : tab'[x] = tab[x]
  BY GotoType
<1>4. /\ tab'[t].at = at /\ tab'[t].nav = tab[t].nav /\ tab'[t].who = tab[t].who
      /\ tab'[t].approved = tab[t].approved /\ tab'[t].shown = tab[t].shown
      /\ tab'[t].moved = tab[t].moved /\ tab'[t].scopes = tab[t].scopes
      /\ tab'[t].client = tab[t].client
  BY <1>1, <1>3 DEF OpenTab
<1>5. tab[t].who \in Users
  BY <1>1, <1>2 DEF TabInv, OpenTab, Account
<1>6. TabInv(t)'
  BY <1>2, <1>4, <1>5 DEF TabInv
<1>7. QED
  BY <1>3, <1>6, QuietStep

\* The account that is identified is the one the page named, unless it moved.
LEMMA IdentifyStep ==
    ASSUME ConsentTypeOK, ConsentInv, NEW t \in Tabs, Identify(t), ~Fails(t, "redis"),
           Admitted(t)
    PROVE  ConsentInv'
<1> USE DEF Asking, Calling
<1>1. tab[t] \in OpenTab /\ tab[t].at = "identify"
  BY OpenTabs DEF Identify
<1>2. /\ Quiet
      /\ tab'[t] = [tab[t] EXCEPT !.at = "expiry", !.who = Asker(t)]
      /\ \A x \in Tabs \ {t} : tab'[x] = tab[x]
  BY DEF Identify, ConsentTypeOK
<1>3. WhoAmI(t)' = WhoAmI(t) /\ allowed' = allowed /\ TabInv(t)
  BY <1>2 DEF Quiet, browser, history, WhoAmI, ConsentInv
<1>4. /\ tab'[t].at = "expiry" /\ tab'[t].nav = tab[t].nav /\ tab'[t].who = Asker(t)
      /\ tab'[t].approved = tab[t].approved /\ tab'[t].shown = tab[t].shown
      /\ tab'[t].moved = tab[t].moved /\ tab'[t].scopes = tab[t].scopes
      /\ tab'[t].client = tab[t].client
  BY <1>1, <1>2 DEF OpenTab
<1>5. ~tab[t].nav => Asker(t) = WhoAmI(t)
  BY DEF Asker, WhoAmI
<1>6. TabInv(t)'
  BY <1>1, <1>3, <1>4, <1>5 DEF TabInv, Admitted
<1>7. QED
  BY <1>2, <1>6, QuietStep

\* An expired password ends the cookie's session, and with it the account of
\* tabs that have no token of their own.
LEMMA ExpiryStep ==
    ASSUME ConsentTypeOK, ConsentInv, NEW t \in Tabs, CheckExpiry(t)
    PROVE  ConsentInv'
<1> USE DEF Asking, Calling
<1>1. tab[t] \in OpenTab /\ tab[t].at = "expiry" /\ TabInv(t)
  BY OpenTabs DEF CheckExpiry, ConsentInv
<1>2. ASSUME NEW s, Fails(t, s)
      PROVE  ConsentInv'
  BY <1>1, <1>2, RefusedStep DEF Fails
<1>3. CASE /\ cookie' = Nobody
           /\ tab' = [TabsAfter(bearer, Nobody) EXCEPT ![t] =
                         IF tab[t].approved \/ tab[t].nav THEN Closed
                         ELSE [TabsAfter(bearer, Nobody)[t] EXCEPT !.at = "lookup"]]
           /\ UNCHANGED <<clock, store, bearer, flows, events, history>>
  <2> DEFINE after == TabsAfter(bearer, Nobody)
  <2>1. OnlyGrow /\ issued' = issued /\ consent' = consent /\ allowed' = allowed
    BY <1>3 DEF history, store, OnlyGrow
  <2>2. after \in [Tabs -> {Closed} \cup OpenTab]
    BY TabsAfterType, TabShapes
  <2>3. TabsAfter(bearer', cookie') = after
    BY <1>3 DEF TabsAfter
  <2>4. \A x \in Tabs \ {t} : tab'[x] = TabsAfter(bearer', cookie')[x]
    <3> HIDE DEF after
    <3>1. QED
      BY <1>3, <2>2, <2>3 DEF after
  <2>5. \A x \in Tabs \ {t} : TabInv(x)'
    BY <2>1, <2>4, BrowserStep
  <2>6. CASE tab[t].approved \/ tab[t].nav
    <3>1. tab'[t] = Closed
      BY <1>3, <2>2, <2>6
    <3>2. TabInv(t)'
      BY <3>1, TabShapes DEF TabInv
    <3>3. QED
      BY <2>1, <2>5, <3>2, RecordsKept DEF ConsentInv
  <2>7. CASE ~(tab[t].approved \/ tab[t].nav)
    <3>1. tab'[t] = [after[t] EXCEPT !.at = "lookup"]
      BY <1>3, <2>2, <2>7
    <3>2. \/ TabsAfter(bearer, Nobody)[t] = tab[t] /\ WhoAmI(t) = IF bearer[t] # Nobody THEN bearer[t] ELSE Nobody
          \/ TabsAfter(bearer, Nobody)[t] = [tab[t] EXCEPT !.moved = TRUE]
      BY <1>1, TabsAfterType, TabShapes
    <3>3. WhoAmI(t)' = IF bearer[t] # Nobody THEN bearer[t] ELSE Nobody
      BY <1>3 DEF WhoAmI
    <3>4. /\ tab'[t].at = "lookup" /\ tab'[t].nav = tab[t].nav
          /\ tab'[t].approved = tab[t].approved /\ tab'[t].shown = tab[t].shown
          /\ ~tab'[t].moved => ~tab[t].moved /\ WhoAmI(t)' = WhoAmI(t)
      BY <1>1, <3>1, <3>2, <3>3 DEF OpenTab
    <3>5. TabInv(t)'
      BY <1>1, <2>7, <3>4 DEF TabInv
    <3>6. QED
      BY <2>1, <2>5, <3>5, RecordsKept DEF ConsentInv
  <2>8. QED
    BY <2>6, <2>7
<1>4. QED
  BY <1>1, <1>2, <1>3, RefusedStep, GoesOn DEF CheckExpiry

\* What is on record has been allowed, and so has what it covers.
LEMMA ReadStep ==
    ASSUME ConsentTypeOK, ConsentInv, NEW t \in Tabs, ReadConsent(t), ~Fails(t, "redis")
    PROVE  ConsentInv'
<1> USE DEF Asking, Calling
<1> DEFINE s == Stored(tab[t].who, tab[t].client)
           at == IF tab[t].approved THEN "write"
                 ELSE IF Covers(s, tab[t].scopes) THEN "code"
                 ELSE IF tab[t].nav THEN "me" ELSE "lookup"
<1>1. tab[t] \in OpenTab /\ tab[t].at = "read" /\ TabInv(t)
  BY OpenTabs DEF ReadConsent, ConsentInv
<1>2. tab[t].who \in Users /\ tab[t].client \in Clients
  BY <1>1 DEF TabInv, OpenTab
<1>3. Consented(tab[t].who, tab[t].client, s)
  BY <1>2 DEF Stored, ConsentInv, ConsentIsTheShownAccounts, Consented
<1>4. /\ Quiet
      /\ tab' = [tab EXCEPT ![t].stored = s, ![t].at = at]
  BY DEF ReadConsent
<1>5. at = "code" => Consented(tab[t].who, tab[t].client, tab[t].scopes)
  BY <1>3 DEF Covers, Consented
<1>6. /\ at \in {"write", "code", "me", "lookup"}
      /\ at = "write" <=> tab[t].approved
      /\ at = "lookup" => ~tab[t].nav
  OBVIOUS
<1> HIDE DEF s, at
<1>7. /\ tab'[t] = [tab[t] EXCEPT !.stored = s, !.at = at]
      /\ \A x \in Tabs \ {t} : tab'[x] = tab[x]
  BY <1>4 DEF ConsentTypeOK
<1>8. /\ tab'[t].at = at /\ tab'[t].nav = tab[t].nav /\ tab'[t].who = tab[t].who
      /\ tab'[t].approved = tab[t].approved /\ tab'[t].shown = tab[t].shown
      /\ tab'[t].moved = tab[t].moved /\ tab'[t].scopes = tab[t].scopes
      /\ tab'[t].client = tab[t].client /\ tab'[t].stored = s
  BY <1>1, <1>7 DEF OpenTab
<1>9. /\ WhoAmI(t)' = WhoAmI(t) /\ allowed' = allowed /\ strays' = strays
  BY <1>4 DEF Quiet, browser, history, WhoAmI
<1>10. TabInv(t)'
  <2>1. /\ at = "write" => Consented(tab[t].who, tab[t].client, tab[t].stored)'
        /\ at = "code" => Consented(tab[t].who, tab[t].client, tab[t].scopes)'
    BY <1>3, <1>5, <1>8, <1>9 DEF Consented
  <2>2. QED
    BY <1>1, <1>2, <1>6, <1>8, <1>9, <2>1 DEF TabInv
<1>11. QED
  BY <1>4, <1>7, <1>10, QuietStep

\* An approval is recorded for the account whose screen allowed it; if the tab
\* has moved since, it is a stray.
LEMMA WriteStep ==
    ASSUME ConsentTypeOK, ConsentInv, NEW t \in Tabs, WriteConsent(t), ~Fails(t, "redis")
    PROVE  ConsentInv'
<1> USE DEF Asking, Calling
<1> DEFINE q == tab[t]
           p == <<q.who, q.client>>
<1>1. q \in OpenTab /\ q.at = "write" /\ TabInv(t)
  BY OpenTabs DEF WriteConsent, ConsentInv
<1>2. /\ q.who \in Users /\ q.client \in Clients /\ p \in Users \X Clients
      /\ q.approved /\ ~q.nav /\ Consented(q.who, q.client, q.stored)
      /\ q.scopes \subseteq allowed[<<q.shown, q.client>>]
      /\ ~q.moved => q.who = q.shown
  BY <1>1 DEF TabInv, OpenTab
<1>3. /\ tab'[t] = [tab[t] EXCEPT !.at = "code"]
      /\ \A x \in Tabs \ {t} : tab'[x] = tab[x]
  BY <1>1, GotoType DEF WriteConsent
<1>4. /\ tab'[t].at = "code" /\ tab'[t].nav = q.nav /\ tab'[t].who = q.who
      /\ tab'[t].approved = q.approved /\ tab'[t].shown = q.shown
      /\ tab'[t].moved = q.moved /\ tab'[t].scopes = q.scopes
      /\ tab'[t].client = q.client
  BY <1>1, <1>3 DEF OpenTab
<1>5. /\ OnlyGrow /\ issued' = issued /\ allowed' = allowed
      /\ UNCHANGED browser /\ WhoAmI(t)' = WhoAmI(t)
      /\ strays' = IF q.moved THEN strays \cup {p} ELSE strays
      /\ consent' = [consent EXCEPT ![p] = [scopes |-> Merged(q.stored, q.scopes),
                                            till |-> Expiry(q.who, q.client)]]
  BY DEF WriteConsent, OnlyGrow, browser, WhoAmI
<1>6. q.scopes \subseteq allowed[p] \/ p \in strays'
  BY <1>2, <1>5
<1>7. TabInv(t)'
  <2>1. Consented(tab[t].who, tab[t].client, tab[t].scopes)'
    BY <1>4, <1>5, <1>6 DEF Consented
  <2>2. QED
    BY <1>1, <1>4, <1>5, <2>1 DEF TabInv
<1>8. ConsentIsTheShownAccounts'
  <2>1. \A x \in Users \X Clients :
            consent'[x].scopes = IF x = p THEN q.stored \cup q.scopes ELSE consent[x].scopes
    BY <1>2, <1>5 DEF ConsentTypeOK, Merged
  <2>2. q.stored \cup q.scopes \subseteq allowed[p] \/ p \in strays'
    BY <1>2, <1>5, <1>6 DEF Consented
  <2>3. strays \subseteq strays' /\ allowed' = allowed
    BY <1>5
  <2>4. QED
    BY <2>1, <2>2, <2>3 DEF ConsentIsTheShownAccounts, ConsentInv
<1>9. QED
  BY <1>3, <1>5, <1>7, <1>8, OneTab, RecordsKept DEF ConsentInv

\* A code carries what was allowed.
LEMMA IssueStep ==
    ASSUME ConsentTypeOK, ConsentInv, NEW t \in Tabs, IssueCode(t)
    PROVE  ConsentInv'
<1> USE DEF Asking, Calling
<1>1. tab[t] \in OpenTab /\ tab[t].at = "code" /\ TabInv(t)
  BY OpenTabs DEF IssueCode, ConsentInv
<1>2. ASSUME Quiet, Refused(t)
      PROVE  ConsentInv'
  BY <1>1, <1>2, RefusedStep
<1>3. CASE /\ Close(t)
           /\ issued' = [issued EXCEPT ![<<tab[t].who, tab[t].client>>] =
                             @ \cup Granted(tab[t].who, tab[t].scopes)]
           /\ UNCHANGED <<clock, store, browser, flows, events, allowed, strays, kept, raced>>
  <2> DEFINE p == <<tab[t].who, tab[t].client>>
  <2>1. p \in Users \X Clients /\ Consented(tab[t].who, tab[t].client, tab[t].scopes)
    BY <1>1 DEF TabInv, OpenTab
  <2>2. Granted(tab[t].who, tab[t].scopes) \subseteq tab[t].scopes
    BY DEF Granted
  <2>3. \A x \in Users \X Clients :
            issued'[x] = IF x = p THEN issued[x] \cup Granted(tab[t].who, tab[t].scopes)
                         ELSE issued[x]
    BY <1>3, <2>1 DEF ConsentTypeOK
  <2>4. OnlyGrow /\ allowed' = allowed /\ strays' = strays /\ consent' = consent
    BY <1>3 DEF OnlyGrow, store
  <2>5. CodesAreConsented'
    BY <2>1, <2>2, <2>3, <2>4 DEF ConsentInv, CodesAreConsented, Consented
  <2>6. tab'[t] = Closed /\ \A x \in Tabs \ {t} : tab'[x] = tab[x]
    BY <1>3, TabType DEF Close
  <2>7. TabInv(t)'
    BY <2>6, TabShapes DEF TabInv
  <2>8. QED
    BY <1>3, <2>4, <2>5, <2>6, <2>7, OneTab, RecordsKept DEF ConsentInv
<1>4. QED
  BY <1>2, <1>3 DEF IssueCode, Fails

\* Every step of Next keeps the types and the invariant.
LEMMA ConsentStep ==
    ASSUME ConsentTypeOK, ConsentInv, [Next]_vars
    PROVE  ConsentTypeOK' /\ ConsentInv'
<1> USE DEF store, browser, history
<1>1. ASSUME NEW t \in Tabs, User(t)
      PROVE  ConsentTypeOK' /\ ConsentInv'
  BY <1>1, UserType, UserStep
<1>2. ASSUME NEW t \in Tabs, Resume(t)
      PROVE  ConsentTypeOK' /\ ConsentInv'
  <2>1. ConsentTypeOK'
    BY <1>2, AskerIsKnown, ResumeType
  <2>2. ASSUME FindClient(t)
        PROVE  ConsentInv'
    BY <2>2, RefusedStep, GoesOn DEF FindClient, Fails, Calling
  <2>3. ASSUME Fails(t, "redis") /\ (Identify(t) \/ ReadConsent(t) \/ WriteConsent(t))
        PROVE  ConsentInv'
    <3>1. tab[t].at \in Calling
      BY <2>3 DEF Identify, ReadConsent, WriteConsent, Calling
    <3>2. Refused(t) /\ Quiet
      BY <2>3 DEF Fails
    <3>3. QED
      BY <3>1, <3>2, RefusedStep
  <2>4. ASSUME Identify(t) /\ ~Fails(t, "redis")
        PROVE  ConsentInv'
    <3>1. CASE Admitted(t)
      BY <2>4, <3>1, IdentifyStep
    <3>2. CASE ~Admitted(t)
      <4>1. tab[t].at \in Calling /\ Refused(t) /\ Quiet
        BY <2>4, <3>2 DEF Identify, Calling
      <4>2. QED
        BY <4>1, RefusedStep
    <3>3. QED
      BY <3>1, <3>2
  <2>5. ASSUME ReadConsent(t) /\ ~Fails(t, "redis")
        PROVE  ConsentInv'
    BY <2>5, ReadStep
  <2>6. ASSUME WriteConsent(t) /\ ~Fails(t, "redis")
        PROVE  ConsentInv'
    BY <2>6, WriteStep
  <2>7. QED
    BY <1>2, <2>1, <2>2, <2>3, <2>4, <2>5, <2>6, PageStep, ExpiryStep, IssueStep DEF Resume
<1>3. CASE World
  <2>1. ConsentTypeOK'
    BY <1>3, WorldType
  <2>2. OnlyGrow /\ issued' = issued /\ consent' = consent
    BY <1>3 DEF World, BearerDies, Browser, PasswordExpires, Deactivate, Tick, OnlyGrow
  <2>3. ASSUME NEW x \in Tabs
        PROVE  TabInv(x)'
    <3>1. CASE \E t \in Tabs : BearerDies(t)
      BY <2>2, <3>1, BrowserStep DEF BearerDies, Browser
    <3>2. CASE tab' = tab /\ UNCHANGED browser
      BY <2>2, <3>2, WaitingTab DEF ConsentInv, WhoAmI
    <3>3. QED
      BY <1>3, <3>1, <3>2 DEF World, PasswordExpires, Deactivate, Tick
  <2>4. QED
    BY <2>1, <2>2, <2>3, RecordsKept DEF ConsentInv
<1>4. CASE UNCHANGED vars
  <2>1. ConsentTypeOK'
    BY <1>4 DEF vars, ConsentTypeOK
  <2>2. OnlyGrow /\ issued' = issued /\ consent' = consent /\ tab' = tab /\ UNCHANGED browser
    BY <1>4 DEF vars, OnlyGrow
  <2>3. QED
    BY <2>1, <2>2, WaitingTab, RecordsKept DEF ConsentInv, WhoAmI
<1>5. QED
  BY <1>1, <1>2, <1>3, <1>4 DEF Next

LEMMA ConsentInductive == Spec => [](ConsentTypeOK /\ ConsentInv)
<1>1. Init => ConsentTypeOK /\ ConsentInv
  <2> SUFFICES ASSUME Init
               PROVE  ConsentTypeOK /\ ConsentInv
    OBVIOUS
  <2>1. ConsentTypeOK
    BY ConsentBoundsAssumption DEF Init, ConsentTypeOK, Account, Time
  <2>2. ConsentInv
    BY TabShapes DEF Init, ConsentInv, CodesAreConsented, ConsentIsTheShownAccounts, TabInv
  <2>3. QED
    BY <2>1, <2>2
<1>2. ConsentTypeOK /\ ConsentInv /\ [Next]_vars => (ConsentTypeOK /\ ConsentInv)'
  BY ConsentStep
<1>3. QED
  BY <1>1, <1>2, PTL DEF Spec

\* Every variable of the consent model keeps its type.
THEOREM ConsentTypesCorrect == Spec => []ConsentTypeOK
BY ConsentInductive, PTL

\* A code carries only scopes its user has allowed the client on a screen that
\* named that user, or the tab's account changed behind the screen
\* (GET /oauth/authorize and handleAllow).
THEOREM OnlyConsentedCodes == Spec => []CodesAreConsented
<1>1. ConsentInv => CodesAreConsented
  BY DEF ConsentInv
<1>2. QED
  BY <1>1, ConsentInductive, PTL

\* The same of what is recorded: the page and the handler agree on whose
\* approval it is although neither tells the other.
THEOREM OnlyShownAccountsConsent == Spec => []ConsentIsTheShownAccounts
<1>1. ConsentInv => ConsentIsTheShownAccounts
  BY DEF ConsentInv
<1>2. QED
  BY <1>1, ConsentInductive, PTL

-----------------------------------------------------------------------------
(* Approvals stay on record.                                               *)

\* An approval due to be on record is, and whoever is about to write its key
\* back has read it, unless approvals overlapped.  No key expires before an
\* approval it holds, as every write sets it further ahead.
Due(p) == {s \in Scopes : kept[p][s] > clock}

KeptInv ==
    /\ \A p \in Users \X Clients :
        /\ consent[p].till <= clock + ConsentTTL
        /\ \A s \in Scopes : kept[p][s] <= consent[p].till
        /\ p \notin raced => Due(p) \subseteq consent[p].scopes
    /\ \A t \in Tabs :
        LET p == <<tab[t].who, tab[t].client>> IN
        tab[t].at = "write" /\ p \notin raced => Due(p) \subseteq tab[t].stored

\* What a tab at the write has read stays as it is.
NoNewWriter ==
    \A t \in Tabs :
        tab'[t].at = "write" =>
            /\ tab[t].at = "write" /\ tab'[t].who = tab[t].who
            /\ tab'[t].client = tab[t].client /\ tab'[t].stored = tab[t].stored

LEMMA KeptImplies ==
    ASSUME ConsentTypeOK, KeptInv
    PROVE  ApprovalsAreKept
<1> SUFFICES ASSUME NEW p \in Users \X Clients, p \notin raced, NEW s \in Scopes,
                    kept[p][s] > clock
             PROVE  s \in Stored(p[1], p[2])
  BY DEF ApprovalsAreKept
<1>1. p = <<p[1], p[2]>>
  OBVIOUS
<1>2. s \in consent[p].scopes
  BY DEF KeptInv, Due
<1>3. kept[p][s] <= consent[p].till
  BY DEF KeptInv
<1>4. kept[p][s] \in Nat /\ consent[p].till \in Nat /\ clock \in Nat
  BY ConsentBoundsAssumption DEF ConsentTypeOK, Time
<1>5. consent[p].till > clock
  BY <1>3, <1>4
<1>6. QED
  BY <1>1, <1>2, <1>5 DEF Stored

\* Steps that neither write a key nor read one to write it.
LEMMA KeptQuiet ==
    ASSUME ConsentTypeOK, KeptInv, AskerKnown, NoNewWriter,
           clock' \in Nat, clock <= clock', UNCHANGED <<consent, kept, raced>>
    PROVE  KeptInv'
<1>1. clock \in Nat /\ ConsentTTL \in Nat
  BY ConsentBoundsAssumption DEF ConsentTypeOK
<1> DEFINE DueAfter(p) == {s \in Scopes : kept'[p][s] > clock'}
<1>2. ASSUME NEW p \in Users \X Clients
      PROVE  DueAfter(p) \subseteq Due(p) /\ consent[p].till <= clock' + ConsentTTL
  <2>1. \A s \in Scopes : kept[p][s] \in Nat
    BY ConsentBoundsAssumption DEF ConsentTypeOK, Time
  <2>2. consent[p].till \in Nat /\ consent[p].till <= clock + ConsentTTL
    BY ConsentBoundsAssumption DEF ConsentTypeOK, Time, KeptInv
  <2>3. QED
    BY <1>1, <2>1, <2>2 DEF Due
<1>3. ASSUME NEW t \in Tabs, tab'[t].at = "write", <<tab'[t].who, tab'[t].client>> \notin raced
      PROVE  DueAfter(<<tab'[t].who, tab'[t].client>>) \subseteq tab'[t].stored
  <2>1. tab[t].at = "write" /\ tab'[t].who = tab[t].who /\ tab'[t].client = tab[t].client
        /\ tab'[t].stored = tab[t].stored
    BY <1>3 DEF NoNewWriter
  <2>2. <<tab[t].who, tab[t].client>> \in Users \X Clients
    BY <2>1, OpenTabs DEF AskerKnown, OpenTab
  <2>3. PICK p \in Users \X Clients : p = <<tab[t].who, tab[t].client>>
    BY <2>2
  <2>4. Due(p) \subseteq tab[t].stored
    BY <1>3, <2>1, <2>3 DEF KeptInv
  <2>5. DueAfter(p) \subseteq Due(p)
    BY <1>2
  <2>6. <<tab'[t].who, tab'[t].client>> = p
    BY <2>1, <2>3
  <2>7. QED
    BY <2>1, <2>4, <2>5, <2>6
<1>4. (\A p \in Users \X Clients :
          /\ consent[p].till <= clock + ConsentTTL
          /\ \A s \in Scopes : kept[p][s] <= consent[p].till
          /\ p \notin raced => Due(p) \subseteq consent[p].scopes)'
  <2>1. \A p \in Users \X Clients : DueAfter(p) \subseteq Due(p)
    BY <1>2
  <2>2. \A p \in Users \X Clients : p \notin raced => DueAfter(p) \subseteq consent[p].scopes
    BY <2>1 DEF KeptInv
  <2>3. QED
    BY <1>2, <2>2 DEF KeptInv, Due
<1>5. QED
  BY <1>3, <1>4 DEF KeptInv, Due

\* A tab that moves on by itself, elsewhere than to the write.
LEMMA OthersWait ==
    ASSUME NEW t \in Tabs, tab'[t].at # "write", \A x \in Tabs \ {t} : tab'[x] = tab[x]
    PROVE  NoNewWriter
BY DEF NoNewWriter

LEMMA RefusedWaits ==
    ASSUME ConsentTypeOK, NEW t \in Tabs, tab[t].at # "closed", Refused(t)
    PROVE  NoNewWriter
<1>1. tab'[t].at # "write"
  BY RefusedType, OpenTabs, TabShapes DEF OpenTab
<1>2. QED
  BY <1>1, RefusedType, OthersWait

LEMMA GotoWaits ==
    ASSUME ConsentTypeOK, NEW t \in Tabs, tab[t].at # "closed",
           NEW at \in (Asking \cup Calling) \ {"write"}, Goto(t, at)
    PROVE  NoNewWriter
<1>1. tab'[t].at # "write"
  BY GotoType, OpenTabs DEF OpenTab
<1>2. QED
  BY <1>1, GotoType, OthersWait

LEMMA CloseWaits ==
    ASSUME ConsentTypeOK, NEW t \in Tabs, Close(t)
    PROVE  NoNewWriter
<1>1. tab'[t] = Closed /\ \A x \in Tabs \ {t} : tab'[x] = tab[x]
  BY TabType DEF Close
<1>2. QED
  BY <1>1, TabShapes, OthersWait

LEMMA MarkedWait ==
    ASSUME ConsentTypeOK, NEW b, NEW k, tab' = TabsAfter(b, k)
    PROVE  NoNewWriter
<1> SUFFICES ASSUME NEW x \in Tabs
             PROVE  /\ tab'[x].at = tab[x].at /\ tab'[x].who = tab[x].who
                    /\ tab'[x].client = tab[x].client /\ tab'[x].stored = tab[x].stored
  BY DEF NoNewWriter
<1>1. \/ tab'[x] = tab[x]
      \/ tab[x] \in OpenTab /\ tab'[x] = [tab[x] EXCEPT !.moved = TRUE]
  BY TabsAfterType
<1>2. QED
  BY <1>1 DEF OpenTab

\* The user's steps and the rest of the world start no write.
LEMMA UserKeeps ==
    ASSUME ConsentTypeOK, KeptInv, AskerKnown, NEW t \in Tabs, User(t)
    PROVE  KeptInv'
<1> USE DEF store, browser, history
<1>1. UNCHANGED <<clock, consent, kept, raced>>
  BY DEF User, Open, Navigate, Begin, Quiet, Allow, Deny, Login, Logout, Browser
<1>2. ASSUME NEW c \in Clients, NEW S \in SUBSET Scopes,
             Open(t, c, S) \/ \E approved \in BOOLEAN : Navigate(t, c, S, approved)
      PROVE  NoNewWriter
  <2>1. tab'[t].at # "write" /\ \A x \in Tabs \ {t} : tab'[x] = tab[x]
    BY <1>2 DEF Open, Navigate, Begin, ConsentTypeOK
  <2>2. QED
    BY <2>1, OthersWait
<1>3. ASSUME Allow(t)
      PROVE  NoNewWriter
  <2>1. tab[t] \in OpenTab
    BY <1>3, OpenTabs DEF Allow
  <2>2. /\ tab'[t] = [tab[t] EXCEPT !.at = "identify", !.approved = TRUE]
        /\ \A x \in Tabs \ {t} : tab'[x] = tab[x]
    BY <1>3 DEF Allow, ConsentTypeOK
  <2>3. tab'[t].at # "write"
    BY <2>1, <2>2 DEF OpenTab
  <2>4. QED
    BY <2>2, <2>3, OthersWait
<1>4. ASSUME NEW u \in Users, Login(t, u) \/ Logout(t)
      PROVE  NoNewWriter
  BY <1>4, MarkedWait DEF Login, Logout, Browser
<1>5. Logout(t) => NoNewWriter
  BY MarkedWait DEF Logout, Browser
<1>6. NoNewWriter
  BY <1>2, <1>3, <1>4, <1>5, CloseWaits DEF User, Deny
<1>7. clock \in Nat
  BY ConsentBoundsAssumption DEF ConsentTypeOK
<1>8. QED
  BY <1>1, <1>6, <1>7, KeptQuiet

LEMMA WorldKeeps ==
    ASSUME ConsentTypeOK, KeptInv, AskerKnown, World
    PROVE  KeptInv'
<1> USE DEF store, browser, history
<1>1. NoNewWriter
  <2>1. CASE \E x \in Tabs : BearerDies(x)
    BY <2>1, MarkedWait DEF BearerDies, Browser
  <2>2. CASE tab' = tab
    BY <2>2 DEF NoNewWriter
  <2>3. QED
    BY <2>1, <2>2 DEF World, PasswordExpires, Deactivate, Tick
<1>2. clock \in Nat
  BY ConsentBoundsAssumption DEF ConsentTypeOK
<1>3. clock' \in Nat /\ clock <= clock'
  <2>1. clock' \in {clock, clock + 1}
    BY DEF World, BearerDies, Browser, PasswordExpires, Deactivate, Tick
  <2>2. QED
    BY <1>2, <2>1
<1>4. UNCHANGED <<consent, kept, raced>>
  BY DEF World, BearerDies, Browser, PasswordExpires, Deactivate, Tick
<1>5. QED
  BY <1>1, <1>3, <1>4, KeptQuiet

\* The steps of the page and of the handler, but for the read and the write.
LEMMA CallKeeps ==
    ASSUME ConsentTypeOK, KeptInv, AskerKnown, NEW t \in Tabs,
           \/ MeAnswers(t) \/ LookupAnswers(t) \/ Identify(t) \/ CheckExpiry(t)
           \/ FindClient(t) \/ IssueCode(t)
           \/ tab[t].at # "closed" /\ \E s \in MayFail : Fails(t, s)
    PROVE  KeptInv'
<1> USE DEF store, browser, history
<1>1. UNCHANGED <<clock, consent, kept, raced>>
  BY DEF MeAnswers, LookupAnswers, Identify, CheckExpiry, FindClient, IssueCode, Fails, Quiet
<1>2. tab[t].at # "closed" /\ tab[t] \in OpenTab
  BY OpenTabs DEF MeAnswers, LookupAnswers, Identify, CheckExpiry, FindClient, IssueCode
<1>3. (Refused(t) => NoNewWriter) /\ (Close(t) => NoNewWriter)
  BY <1>2, RefusedWaits, CloseWaits
<1>4. \A at \in {"shown", "client", "read"} : Goto(t, at) => NoNewWriter
  BY <1>2, GotoWaits DEF Asking, Calling
<1>5. CASE MeAnswers(t)
  <2>1. ASSUME tab' = [tab EXCEPT ![t].at = "identify", ![t].shown = WhoAmI(t),
                                ![t].moved = FALSE, ![t].nav = FALSE]
        PROVE  NoNewWriter
    <3>1. tab' = [tab EXCEPT ![t] = [tab[t] EXCEPT !.at = "identify", !.shown = WhoAmI(t),
                                                   !.moved = FALSE, !.nav = FALSE]]
      BY <2>1 DEF ConsentTypeOK
    <3>2. /\ tab'[t] = [tab[t] EXCEPT !.at = "identify", !.shown = WhoAmI(t),
                                      !.moved = FALSE, !.nav = FALSE]
          /\ \A x \in Tabs \ {t} : tab'[x] = tab[x]
      BY <3>1 DEF ConsentTypeOK
    <3>3. tab'[t].at # "write"
      BY <1>2, <3>2 DEF OpenTab
    <3>4. QED
      BY <3>2, <3>3, OthersWait
  <2>2. NoNewWriter
    BY <1>3, <1>5, <2>1 DEF MeAnswers
  <2>3. QED
    BY <1>1, <2>2, KeptQuiet, ConsentBoundsAssumption DEF ConsentTypeOK
<1>6. CASE Identify(t)
  <2>1. ASSUME tab' = [tab EXCEPT ![t].at = "expiry", ![t].who = Asker(t)]
        PROVE  NoNewWriter
    <3>1. /\ tab'[t] = [tab[t] EXCEPT !.at = "expiry", !.who = Asker(t)]
          /\ \A x \in Tabs \ {t} : tab'[x] = tab[x]
      BY <2>1 DEF ConsentTypeOK
    <3>2. tab'[t].at # "write"
      BY <1>2, <3>1 DEF OpenTab
    <3>3. QED
      BY <3>1, <3>2, OthersWait
  <2>2. NoNewWriter
    BY <1>3, <1>6, <2>1 DEF Identify, Fails
  <2>3. QED
    BY <1>1, <2>2, KeptQuiet, ConsentBoundsAssumption DEF ConsentTypeOK
<1>7. CASE CheckExpiry(t)
  <2> DEFINE after == TabsAfter(bearer, Nobody)
  <2>1. ASSUME tab' = [after EXCEPT ![t] = IF tab[t].approved \/ tab[t].nav THEN Closed
                                           ELSE [after[t] EXCEPT !.at = "lookup"]]
        PROVE  NoNewWriter
    <3>1. after \in [Tabs -> {Closed} \cup OpenTab]
      BY TabsAfterType, TabShapes
    <3>2. after[t] \in OpenTab
      <4>1. [tab[t] EXCEPT !.moved = TRUE] \in OpenTab
        BY <1>2 DEF OpenTab
      <4>2. \/ TabsAfter(bearer, Nobody)[t] = tab[t]
            \/ TabsAfter(bearer, Nobody)[t] = [tab[t] EXCEPT !.moved = TRUE]
        BY TabsAfterType
      <4>3. QED
        BY <1>2, <4>1, <4>2
    <3>3. \A x \in Tabs : /\ after[x].at = tab[x].at /\ after[x].who = tab[x].who
                          /\ after[x].client = tab[x].client
                          /\ after[x].stored = tab[x].stored
      <4>1. ASSUME NEW x \in Tabs
            PROVE  \/ TabsAfter(bearer, Nobody)[x] = tab[x]
                   \/ /\ tab[x] \in OpenTab
                      /\ TabsAfter(bearer, Nobody)[x] = [tab[x] EXCEPT !.moved = TRUE]
        BY TabsAfterType
      <4>2. QED
        BY <4>1 DEF OpenTab
    <3> HIDE DEF after
    <3>4. /\ tab'[t] = Closed \/ tab'[t] = [after[t] EXCEPT !.at = "lookup"]
          /\ \A x \in Tabs \ {t} : tab'[x] = after[x]
      BY <2>1, <3>1 DEF after
    <3>5. tab'[t].at # "write"
      BY <3>2, <3>4, TabShapes DEF OpenTab
    <3>6. QED
      BY <3>3, <3>4, <3>5 DEF NoNewWriter
  <2>2. NoNewWriter
    BY <1>3, <1>4, <1>7, <2>1 DEF CheckExpiry, Fails
  <2>3. QED
    BY <1>1, <2>2, KeptQuiet, ConsentBoundsAssumption DEF ConsentTypeOK
<1>8. CASE \/ LookupAnswers(t) \/ FindClient(t) \/ IssueCode(t)
           \/ \E s \in MayFail : Fails(t, s)
  <2>1. NoNewWriter
    BY <1>3, <1>4, <1>8 DEF LookupAnswers, FindClient, IssueCode, Fails
  <2>2. QED
    BY <1>1, <2>1, KeptQuiet, ConsentBoundsAssumption DEF ConsentTypeOK
<1>9. QED
  BY <1>5, <1>6, <1>7, <1>8

\* What a handler reads before the write holds what is due.
LEMMA ReadKeeps ==
    ASSUME ConsentTypeOK, KeptInv, AskerKnown, NEW t \in Tabs, ReadConsent(t),
           ~Fails(t, "redis")
    PROVE  KeptInv'
<1> DEFINE q == tab[t]
           s == Stored(q.who, q.client)
           at == IF q.approved THEN "write" ELSE IF Covers(s, q.scopes) THEN "code"
                 ELSE IF q.nav THEN "me" ELSE "lookup"
<1>1. q \in OpenTab /\ q.at = "read"
  BY OpenTabs DEF ReadConsent
<1>2. <<q.who, q.client>> \in Users \X Clients
  BY <1>1 DEF AskerKnown, OpenTab
<1>3. <<q.who, q.client>> \notin raced => Due(<<q.who, q.client>>) \subseteq s
  BY <1>2, KeptImplies DEF ApprovalsAreKept, Due
<1>4. /\ UNCHANGED <<clock, consent, kept, raced>>
      /\ tab' = [tab EXCEPT ![t].stored = s, ![t].at = at]
  BY DEF ReadConsent, Quiet, store, history
<1> HIDE DEF s, at
<1>5. /\ tab'[t] = [tab[t] EXCEPT !.stored = s, !.at = at]
      /\ \A x \in Tabs \ {t} : tab'[x] = tab[x]
  BY <1>4 DEF ConsentTypeOK
<1>6. tab'[t].stored = s /\ tab'[t].who = q.who /\ tab'[t].client = q.client
  BY <1>1, <1>5 DEF OpenTab
<1>7. ASSUME NEW x \in Tabs, tab'[x].at = "write", <<tab'[x].who, tab'[x].client>> \notin raced
      PROVE  Due(<<tab'[x].who, tab'[x].client>>) \subseteq tab'[x].stored
  <2>1. CASE x = t
    BY <1>3, <1>6, <1>7, <2>1
  <2>2. CASE x # t
    BY <1>5, <1>7, <2>2 DEF KeptInv
  <2>3. QED
    BY <2>1, <2>2
<1>8. QED
  BY <1>4, <1>7 DEF KeptInv, Due

\* The write holds what it approves and, if nothing overlapped, what was due.
LEMMA WriteKeeps ==
    ASSUME ConsentTypeOK, KeptInv, AskerKnown, NEW t \in Tabs, WriteConsent(t),
           ~Fails(t, "redis")
    PROVE  KeptInv'
<1> DEFINE q == tab[t]
           p == <<q.who, q.client>>
           end == clock + ConsentTTL
<1>1. q \in OpenTab /\ q.at = "write"
  BY OpenTabs DEF WriteConsent
<1>2. p \in Users \X Clients
  BY <1>1 DEF AskerKnown, OpenTab
<1>3. /\ consent' = [consent EXCEPT ![p] = [scopes |-> q.stored \cup q.scopes, till |-> end]]
      /\ kept' = [kept EXCEPT ![p] = [s \in Scopes |-> IF s \in q.scopes THEN end
                                                       ELSE @[s]]]
      /\ raced' = IF \E x \in Tabs \ {t} : /\ tab[x].at = "write" /\ tab[x].who = q.who
                                           /\ tab[x].client = q.client
                  THEN raced \cup {p} ELSE raced
      /\ UNCHANGED clock
  BY DEF WriteConsent, Merged, Expiry
<1>4. /\ consent'[p].scopes = q.stored \cup q.scopes /\ consent'[p].till = end
      /\ \A s \in Scopes : kept'[p][s] = IF s \in q.scopes THEN end ELSE kept[p][s]
      /\ \A x \in Users \X Clients : x # p => consent'[x] = consent[x] /\ kept'[x] = kept[x]
  <2> HIDE DEF p, q, end
  <2>1. /\ consent'[p] = [scopes |-> q.stored \cup q.scopes, till |-> end]
        /\ \A x \in Users \X Clients : x # p => consent'[x] = consent[x]
    BY <1>2, <1>3 DEF ConsentTypeOK
  <2>2. /\ kept'[p] = [s \in Scopes |-> IF s \in q.scopes THEN end ELSE kept[p][s]]
        /\ \A x \in Users \X Clients : x # p => kept'[x] = kept[x]
    BY <1>2, <1>3 DEF ConsentTypeOK
  <2>3. QED
    BY <2>1, <2>2
<1>5. tab'[t].at = "code" /\ \A x \in Tabs \ {t} : tab'[x] = tab[x]
  <2>1. /\ tab'[t] = [tab[t] EXCEPT !.at = "code"]
        /\ \A x \in Tabs \ {t} : tab'[x] = tab[x]
    BY <1>1, GotoType DEF WriteConsent, Calling
  <2>2. QED
    BY <1>1, <2>1 DEF OpenTab
<1>6. clock \in Nat /\ end \in Nat /\ ConsentTTL \in Nat
  BY ConsentBoundsAssumption DEF ConsentTypeOK
<1>7. ASSUME NEW x \in Users \X Clients
      PROVE  /\ consent'[x].till <= end
             /\ \A s \in Scopes : kept'[x][s] <= consent'[x].till
             /\ x \notin raced' => {s \in Scopes : kept'[x][s] > clock} \subseteq
                                       consent'[x].scopes
  <2>1. CASE x # p
    BY <1>3, <1>4, <2>1 DEF KeptInv, Due
  <2>2. CASE x = p
    <3>1. consent[p].till <= end /\ \A s \in Scopes : kept[p][s] <= consent[p].till
      BY <1>2 DEF KeptInv
    <3>2. consent[p].till \in Nat /\ \A s \in Scopes : kept[p][s] \in Nat
      BY <1>2, ConsentBoundsAssumption DEF ConsentTypeOK, Time
    <3>3. \A s \in Scopes : kept'[p][s] <= end
      BY <1>4, <1>6, <3>1, <3>2
    <3>4. p \notin raced' => Due(p) \subseteq q.stored
      BY <1>1, <1>3 DEF KeptInv
    <3>5. p \notin raced' => {s \in Scopes : kept'[p][s] > clock} \subseteq
                                 q.stored \cup q.scopes
      BY <1>4, <3>4 DEF Due
    <3> HIDE DEF end, q
    <3>6. QED
      BY <1>4, <1>6, <2>2, <3>3, <3>5
  <2>3. QED
    BY <2>1, <2>2
<1>8. ASSUME NEW x \in Tabs, tab'[x].at = "write", <<tab'[x].who, tab'[x].client>> \notin raced'
      PROVE  {s \in Scopes : kept'[<<tab'[x].who, tab'[x].client>>][s] > clock} \subseteq
                 tab'[x].stored
  <2>1. x # t /\ tab'[x] = tab[x] /\ tab[x].at = "write"
    BY <1>5, <1>8
  <2>2. <<tab[x].who, tab[x].client>> \in Users \X Clients
    BY <2>1, OpenTabs DEF AskerKnown, OpenTab
  <2>3. <<tab[x].who, tab[x].client>> # p
    BY <1>3, <1>8, <2>1
  <2>4. kept'[<<tab[x].who, tab[x].client>>] = kept[<<tab[x].who, tab[x].client>>]
    BY <1>4, <2>2, <2>3
  <2>5. <<tab[x].who, tab[x].client>> \notin raced
    BY <1>3, <1>8, <2>1
  <2>6. QED
    BY <2>1, <2>4, <2>5 DEF KeptInv, Due
<1>9. QED
  BY <1>3, <1>7, <1>8 DEF KeptInv, Due

\* Every step keeps what is due on record.
LEMMA KeptStep ==
    ASSUME ConsentTypeOK, ConsentInv, KeptInv, [Next]_vars
    PROVE  KeptInv'
<1> USE AskerIsKnown
<1>1. ASSUME NEW t \in Tabs, User(t)
      PROVE  KeptInv'
  BY <1>1, UserKeeps
<1>2. ASSUME NEW t \in Tabs, Resume(t)
      PROVE  KeptInv'
  <2>1. ASSUME Fails(t, "redis") /\ (ReadConsent(t) \/ WriteConsent(t))
        PROVE  KeptInv'
    <3>1. tab[t].at # "closed" /\ \E s \in MayFail : Fails(t, s)
      BY <2>1 DEF ReadConsent, WriteConsent, Fails
    <3>2. QED
      BY <3>1, CallKeeps
  <2>2. QED
    BY <1>2, <2>1, CallKeeps, ReadKeeps, WriteKeeps DEF Resume
<1>3. CASE World
  BY <1>3, WorldKeeps
<1>4. CASE UNCHANGED vars
  BY <1>4 DEF vars, store, history, KeptInv, Due
<1>5. QED
  BY <1>1, <1>2, <1>3, <1>4 DEF Next

\* An approval stays on record until its key expires, whatever is approved
\* later, unless two approvals overlapped (oauth.routes 232-241).
THEOREM ApprovalsStay == Spec => []ApprovalsAreKept
<1>1. Init => KeptInv
  <2> SUFFICES ASSUME Init
               PROVE  KeptInv
    OBVIOUS
  <2>1. \A t \in Tabs : tab[t].at # "write"
    BY TabShapes DEF Init
  <2>2. \A p \in Users \X Clients : consent[p].till = 0 /\ \A s \in Scopes : kept[p][s] = 0
    BY DEF Init
  <2>3. clock = 0
    BY DEF Init
  <2>4. QED
    BY <2>1, <2>2, <2>3, ConsentBoundsAssumption DEF KeptInv, Due
<1>2. ConsentTypeOK /\ ConsentInv /\ KeptInv /\ [Next]_vars => KeptInv'
  BY KeptStep
<1>3. ConsentTypeOK /\ KeptInv => ApprovalsAreKept
  BY KeptImplies
<1>4. QED
  BY <1>1, <1>2, <1>3, ConsentInductive, PTL DEF Spec

=============================================================================
