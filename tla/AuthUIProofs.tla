---------------------------- MODULE AuthUIProofs ----------------------------
(***************************************************************************)
(* Proofs about the two halves of auth-ui.  AuthUI, for any accounts,      *)
(* applications and requests in flight: the token and the user in the      *)
(* storage are one account's, and after a logout no token is stored.       *)
(* AdminConsole, for any clients, filters and handlers at once: what the   *)
(* lists show is what was asked for, and new secrets are handed over.      *)
(***************************************************************************)
EXTENDS AuthUI, AdminConsole, FiniteSetTheorems, TLAPS

-----------------------------------------------------------------------------
(* What the helpers leave behind.                                          *)

Running == {"sent", "renewing", "renewed"}
PageOK(p) == p \in Page /\ (p.path \in {"verify", "setup"} => p.ticket # Absent)

\* A request just made, with the token of the storage s.
Fresh(q, s) == q \in Call /\ q.at = "sent" /\ q.token = s.token

\* A step that leaves s in the storage, ends requests and makes new ones.
Settles(s) ==
    /\ storage' = s
    /\ PageOK(page')
    /\ calls' \in [Calls -> {Idle, Timer} \cup Call]
    /\ \A c \in Calls : calls'[c] \in {calls[c], Idle, Timer} \/ Fresh(calls'[c], s)

\* A request is as it was made.
LEMMA SendFresh ==
    ASSUME NEW s \in Storage, NEW who \in Account, NEW ticket \in Ticket, NEW target \in Target,
           NEW kind \in {"home", "portal", "authorize", "login", "register", "verify", "setup",
                         "enable", "change", "logout"}
    PROVE  Fresh(Send(kind, s, who, ticket, target), s)
BY DEF Fresh, Send, Call, Storage, Account

\* The request of a page, if it makes one.
LEMMA OnLoadFresh ==
    ASSUME NEW s \in Storage, NEW path, NEW target \in Target
    PROVE  OnLoad(path, target, s) = Idle \/ Fresh(OnLoad(path, target, s), s)
<1>1. s.user \in Account /\ Absent \in Account /\ Absent \in Ticket /\ Absent \in Target
  BY DEF Storage, Account, Ticket, Target
<1>2. CASE path \in {"home", "portal"} /\ s.token # Absent
  BY <1>1, <1>2, SendFresh DEF OnLoad
<1>3. CASE path = "authorize"
  BY <1>1, <1>3, SendFresh DEF OnLoad
<1>4. CASE path = "setup"
  BY <1>1, <1>4, SendFresh DEF OnLoad
<1>5. QED
  BY <1>2, <1>3, <1>4 DEF OnLoad

\* The page a navigation ends on.
LEMMA OpenedPage ==
    ASSUME NEW s \in Storage, NEW target \in Target,
           NEW path \in {"home", "login", "register", "portal", "authorize", "verify", "setup",
                         "password"},
           NEW to, to = (IF Denied(path, s) THEN "login" ELSE path)
    PROVE  /\ PageOK([path |-> to, target |-> IF to = path THEN target ELSE Absent,
                      ticket |-> TicketOn(to, s), next |-> Absent])
           /\ (IF to = path THEN target ELSE Absent) \in Target
<1>1. TicketOn(to, s) \in Ticket
  BY DEF TicketOn, Storage, Ticket
<1>2. to \in {"verify", "setup"} => TicketOn(to, s) # Absent
  BY DEF Denied, TicketOn
<1>3. QED
  BY <1>1, <1>2 DEF PageOK, Page, Target

\* Navigating settles, on a page that may be shown.
LEMMA ShowSettles ==
    ASSUME UITypeOK, NEW r \in Calls, NEW s \in Storage, NEW target \in Target,
           NEW path \in {"home", "login", "register", "portal", "authorize", "verify", "setup",
                         "password"},
           Show(r, path, target, s)
    PROVE  Settles(s)
<1> DEFINE to == IF Denied(path, s) THEN "login" ELSE path
           goal == IF to = path THEN target ELSE Absent
<1>1. goal \in Target /\ PageOK(page')
  BY OpenedPage DEF Show
<1>2. OnLoad(to, goal, s) = Idle \/ Fresh(OnLoad(to, goal, s), s)
  BY <1>1, OnLoadFresh
<1>3. calls' = [calls EXCEPT ![r] = OnLoad(to, goal, s)] /\ storage' = s
  BY DEF Show
<1> HIDE DEF to, goal
<1>4. QED
  BY <1>1, <1>2, <1>3 DEF Settles, UITypeOK, Fresh

\* So does leaving, which ends the requests,
LEMMA LeaveSettles ==
    ASSUME NEW s, NEW goal \in Target, Leave(goal, s)
    PROVE  Settles(s)
BY DEF Leave, Settles, PageOK, Page, Ticket, Target

\* a request that ends on a page that may be shown,
LEMMA FinishSettles ==
    ASSUME UITypeOK, NEW r \in Calls, Finish(r), PageOK(page')
    PROVE  Settles(storage')
BY DEF Finish, Settles, UITypeOK

\* going to the return address, if there is one,
LEMMA GoToSettles ==
    ASSUME UITypeOK, NEW r \in Calls, NEW s \in Storage, NEW goal \in Target, GoTo(r, goal, s)
    PROVE  Settles(s)
<1>1. Absent \in Target
  BY DEF Target
<1>2. QED
  BY <1>1, ShowSettles, LeaveSettles DEF GoTo

\* going on after a login, by way of the warning or not,
LEMMA GoOnSettles ==
    ASSUME UITypeOK, NEW r \in Calls, NEW s \in Storage, NEW goal \in Target, GoOn(r, goal, s)
    PROVE  Settles(s)
<1>1. CASE GoTo(r, goal, s)
  BY <1>1, GoToSettles
<1>2. CASE /\ page' = [page EXCEPT !.path = "warning", !.ticket = Absent, !.next = goal]
           /\ Finish(r)
           /\ storage' = s
  <2>1. PageOK(page')
    BY <1>2 DEF UITypeOK, PageOK, Page, Ticket
  <2>2. QED
    BY <1>2, <2>1, FinishSettles
<1>3. QED
  BY <1>1, <1>2 DEF GoOn

\* and the forced change, which keeps a ticket and the return address.
LEMMA MustChangeSettles ==
    ASSUME UITypeOK, NEW r \in Calls, NEW s \in Storage, NEW goal \in Target,
           NEW ticket \in Ticket, MustChange(r, ticket, goal, s)
    PROVE  /\ [s EXCEPT !.pwd = ticket, !.pwdReturn = goal] \in Storage
           /\ Settles([s EXCEPT !.pwd = ticket, !.pwdReturn = goal])
<1>1. [s EXCEPT !.pwd = ticket, !.pwdReturn = goal] \in Storage /\ Absent \in Target
  BY DEF Storage, Target
<1>2. QED
  BY <1>1, ShowSettles DEF MustChange

-----------------------------------------------------------------------------
(* The invariant.  Once the user has logged out, every request that could  *)
(* still store a renewed token is of before.                               *)

UIInv ==
    /\ UITypeOK
    /\ StorageIsOneAccounts
    /\ LogoutSticks
    /\ \A r \in Calls : calls[r].at \in Running /\ calls[r].token # Absent /\ out => calls[r].old
    /\ \A r \in Calls : calls[r].at \in {"renewing", "renewed"} => calls[r].token # Absent

Same(s) == s \in Storage /\ s.token = storage.token /\ s.user = storage.user

\* Steps that leave the token and the user in the storage alone.
LEMMA SameKeeps ==
    ASSUME UIInv, NEW s, Same(s), Settles(s), cookie' \in Account, UNCHANGED <<out, borrowed>>
    PROVE  UIInv'
<1>1. UITypeOK' /\ StorageIsOneAccounts' /\ LogoutSticks'
  BY DEF UIInv, Same, Settles, PageOK, UITypeOK, StorageIsOneAccounts, LogoutSticks
<1>2. ASSUME NEW r \in Calls
      PROVE  /\ calls'[r].at \in Running /\ calls'[r].token # Absent /\ out' => calls'[r].old
             /\ calls'[r].at \in {"renewing", "renewed"} => calls'[r].token # Absent
  <2>1. CASE calls'[r] = calls[r]
    BY <2>1 DEF UIInv
  <2>2. CASE calls'[r] \in {Idle, Timer}
    BY <2>2 DEF Idle, Timer, Running
  <2>3. CASE Fresh(calls'[r], s)
    BY <2>3 DEF Fresh, UIInv, LogoutSticks, Same
  <2>4. QED
    BY <2>1, <2>2, <2>3 DEF Settles
<1>3. QED
  BY <1>1, <1>2 DEF UIInv

\* Steps that clear both.
LEMMA ClearedKeeps ==
    ASSUME UIInv, NEW s \in Storage, s.token = Absent, Settles(s), cookie' \in Account,
           out' = out, borrowed' \in BOOLEAN
    PROVE  UIInv'
<1>1. UITypeOK' /\ StorageIsOneAccounts' /\ LogoutSticks'
  BY DEF UIInv, Settles, PageOK, UITypeOK, StorageIsOneAccounts, LogoutSticks
<1>2. ASSUME NEW r \in Calls
      PROVE  /\ calls'[r].at \in Running /\ calls'[r].token # Absent /\ out' => calls'[r].old
             /\ calls'[r].at \in {"renewing", "renewed"} => calls'[r].token # Absent
  <2>1. CASE calls'[r] = calls[r]
    BY <2>1 DEF UIInv
  <2>2. CASE calls'[r] \in {Idle, Timer}
    BY <2>2 DEF Idle, Timer, Running
  <2>3. CASE Fresh(calls'[r], s)
    BY <2>3 DEF Fresh
  <2>4. QED
    BY <2>1, <2>2, <2>3 DEF Settles
<1>3. QED
  BY <1>1, <1>2 DEF UIInv

\* Logins.
LEMMA LoginKeeps ==
    ASSUME UIInv, NEW s \in Storage, NEW u \in Account, Settles(LoggedIn(s, u)), Issued(u)
    PROVE  UIInv'
<1>1. LoggedIn(s, u) \in Storage /\ LoggedIn(s, u).token = u /\ LoggedIn(s, u).user = u
  BY DEF LoggedIn, Storage
<1>2. UITypeOK' /\ StorageIsOneAccounts' /\ LogoutSticks'
  BY <1>1 DEF UIInv, Settles, PageOK, UITypeOK, StorageIsOneAccounts, LogoutSticks, Issued
<1>3. ASSUME NEW r \in Calls
      PROVE  calls'[r].at \in {"renewing", "renewed"} => calls'[r].token # Absent
  BY <1>3 DEF UIInv, Settles, Fresh, Idle, Timer
<1>4. QED
  BY <1>2, <1>3 DEF UIInv, Issued

-----------------------------------------------------------------------------
(* What the user does.                                                     *)

Paths == {"home", "login", "register", "portal", "authorize", "verify", "setup", "password"}

\* Going to a page of the application changes nothing stored.
LEMMA NavigateKeeps ==
    ASSUME UIInv, NEW r \in Calls, NEW path \in Paths, NEW target \in Target,
           Navigate(r, path, target)
    PROVE  UIInv'
<1>1. storage \in Storage /\ Same(storage) /\ cookie \in Account /\ UITypeOK
  BY DEF UIInv, UITypeOK, Same
<1>2. Settles(storage)
  BY <1>1, ShowSettles DEF Navigate, Paths
<1>3. QED
  BY <1>1, <1>2, SameKeeps DEF Navigate

\* Nor does loading one, which ends the requests of the old document.
LEMMA LoadKeeps ==
    ASSUME UIInv, NEW r \in Calls, NEW path \in Paths, NEW target \in Target,
           Load(r, path, target)
    PROVE  UIInv'
<1> DEFINE to == IF Denied(path, storage) THEN "login" ELSE path
           goal == IF to = path THEN target ELSE Absent
<1>1. storage \in Storage /\ Same(storage) /\ cookie \in Account
  BY DEF UIInv, UITypeOK, Same
<1>2. goal \in Target /\ PageOK(page')
  BY <1>1, OpenedPage DEF Load, Paths
<1>3. OnLoad(to, goal, storage) = Idle \/ Fresh(OnLoad(to, goal, storage), storage)
  BY <1>1, <1>2, OnLoadFresh
<1>4. /\ calls' = [c \in Calls |-> IF c = r THEN OnLoad(to, goal, storage) ELSE Idle]
      /\ UNCHANGED <<storage, cookie, out, borrowed>>
  BY DEF Load
<1> HIDE DEF to, goal
<1>5. Settles(storage)
  BY <1>2, <1>3, <1>4 DEF Settles, Fresh
<1>6. QED
  BY <1>1, <1>4, <1>5, SameKeeps

\* Nor does making a request.
LEMMA SubmitKeeps ==
    ASSUME UIInv, NEW r \in Calls, NEW who \in Account, NEW ticket \in Ticket,
           NEW kind \in {"login", "register", "verify", "enable", "change", "logout"},
           Submit(r, kind, who, ticket)
    PROVE  UIInv'
<1>1. storage \in Storage /\ Same(storage) /\ cookie \in Account /\ PageOK(page)
  BY DEF UIInv, UITypeOK, Same, PageOK
<1>2. Absent \in Target
  BY DEF Target
<1>3. Fresh(Send(kind, storage, who, ticket, Absent), storage)
  BY <1>1, <1>2, SendFresh
<1>4. /\ calls' = [calls EXCEPT ![r] = Send(kind, storage, who, ticket, Absent)]
      /\ UNCHANGED <<storage, cookie, page, out, borrowed>>
  BY DEF Submit
<1>5. Settles(storage)
  BY <1>1, <1>3, <1>4 DEF Settles, Fresh, UIInv, UITypeOK
<1>6. QED
  BY <1>1, <1>4, <1>5, SameKeeps

\* Nor do the buttons that go on, besides tickets and targets.
LEMMA ContinueKeeps ==
    ASSUME UIInv, NEW r \in Calls,
           \/ WarningChange(r) \/ WarningLater(r) \/ RegisteredContinue(r)
           \/ CodesContinue(r) \/ AbandonChange(r)
    PROVE  UIInv'
<1>1. /\ storage \in Storage /\ Same(storage) /\ cookie \in Account /\ UITypeOK
      /\ page \in Page /\ Absent \in Target /\ Absent \in Ticket
  BY DEF UIInv, UITypeOK, Same, Target, Ticket
<1>2. page.next \in Target /\ page.target \in Target /\ page.ticket \in Ticket
  BY <1>1 DEF Page
<1>3. CASE WarningChange(r)
  <2> DEFINE s == [storage EXCEPT !.pwd = Absent, !.pwdReturn = page.next]
  <2>1. s \in Storage /\ Same(s)
    BY <1>1, <1>2 DEF Storage, Same
  <2>2. Show(r, "password", Absent, s) /\ UNCHANGED <<cookie, out, borrowed>>
    BY <1>3 DEF WarningChange
  <2> HIDE DEF s
  <2>3. QED
    BY <1>1, <2>1, <2>2, ShowSettles, SameKeeps
<1>4. CASE WarningLater(r)
  BY <1>1, <1>2, <1>4, GoToSettles, SameKeeps DEF WarningLater
<1>5. CASE RegisteredContinue(r)
  BY <1>1, <1>2, <1>5, GoToSettles, SameKeeps DEF RegisteredContinue
<1>6. CASE CodesContinue(r)
  <2> DEFINE goal == IF page.target # Absent THEN page.target ELSE storage.mfaReturn
             s == [storage EXCEPT !.mfaReturn = Absent]
             forced == [s EXCEPT !.pwd = page.ticket, !.pwdReturn = goal]
  <2>1. s \in Storage /\ Same(s) /\ goal \in Target
    BY <1>1, <1>2 DEF Storage, Same
  <2>2. Same(forced)
    BY <1>1, <1>2, <2>1 DEF Same, Storage
  <2>3. /\ MustChange(r, page.ticket, goal, s) \/ GoOn(r, goal, s)
        /\ UNCHANGED <<cookie, out, borrowed>>
    BY <1>6 DEF CodesContinue
  <2> HIDE DEF s, goal
  <2>4. CASE MustChange(r, page.ticket, goal, s)
    BY <1>1, <1>2, <2>1, <2>2, <2>3, <2>4, MustChangeSettles, SameKeeps
  <2>5. CASE GoOn(r, goal, s)
    BY <1>1, <2>1, <2>3, <2>5, GoOnSettles, SameKeeps
  <2>6. QED
    BY <2>3, <2>4, <2>5
<1>7. CASE AbandonChange(r)
  <2> DEFINE s == [storage EXCEPT !.pwd = Absent, !.pwdReturn = Absent]
  <2>1. s \in Storage /\ Same(s)
    BY <1>1 DEF Storage, Same
  <2>2. Show(r, "login", Absent, s) /\ UNCHANGED <<cookie, out, borrowed>>
    BY <1>7 DEF AbandonChange
  <2> HIDE DEF s
  <2>3. QED
    BY <1>1, <2>1, <2>2, ShowSettles, SameKeeps
<1>8. QED
  BY <1>3, <1>4, <1>5, <1>6, <1>7

\* What the user does keeps the invariant.
LEMMA ActKeeps ==
    ASSUME UIInv, NEW r \in Calls, Act(r)
    PROVE  UIInv'
<1>1. page.ticket \in Ticket /\ Absent \in Ticket /\ Absent \in Account
  BY DEF UIInv, UITypeOK, Page, Ticket, Account
<1>2. CASE \E path \in Paths, target \in Target :
              Navigate(r, path, target) \/ Load(r, path, target)
  BY <1>2, NavigateKeeps, LoadKeeps
<1>3. ASSUME NEW u \in Users, SubmitLogin(r, u) \/ SubmitRegister(r, u)
      PROVE  UIInv'
  <2>1. u \in Account
    BY DEF Account
  <2>2. QED
    BY <1>1, <1>3, <2>1, SubmitKeeps DEF SubmitLogin, SubmitRegister
<1>4. CASE SubmitCode(r) \/ SubmitEnable(r) \/ SubmitChange(r) \/ PressLogout(r)
  BY <1>1, <1>4, SubmitKeeps DEF SubmitCode, SubmitEnable, SubmitChange, PressLogout
<1>5. CASE \/ WarningChange(r) \/ WarningLater(r) \/ RegisteredContinue(r)
           \/ CodesContinue(r) \/ AbandonChange(r)
  BY <1>5, ContinueKeeps
<1>6. QED
  BY <1>2, <1>3, <1>4, <1>5 DEF Act, Paths

-----------------------------------------------------------------------------
(* Answers.                                                                *)

\* What an answer knows is of the types of its request.
LEMMA AnswersTyped ==
    ASSUME UITypeOK, NEW r \in Calls, NEW kind, Answers(r, kind)
    PROVE  /\ calls[r] \in Call
           /\ calls[r].who \in Account /\ calls[r].token \in Account
           /\ calls[r].ticket \in Ticket /\ calls[r].target \in Target
<1>1. calls[r] \in Call
  BY DEF UITypeOK, Answers, Timer
<1>2. QED
  BY <1>1 DEF Call

\* The home page and the authorization page: the login, the portal or an
\* application; the user of the authorization page is the cookie's.
LEMMA HomeKeeps ==
    ASSUME UIInv, NEW r \in Calls, HomeArrives(r)
    PROVE  UIInv'
<1>1. /\ storage \in Storage /\ Same(storage) /\ cookie \in Account /\ UITypeOK
      /\ Absent \in Target /\ borrowed \in BOOLEAN
  BY DEF UIInv, UITypeOK, Same, Target
<1>2. CASE Show(r, "login", Absent, Cleared(storage)) /\ borrowed' = FALSE
  <2>1. Cleared(storage) \in Storage /\ Cleared(storage).token = Absent
    BY <1>1 DEF Cleared, Storage, Account
  <2>2. QED
    BY <1>1, <1>2, <2>1, ShowSettles, ClearedKeeps DEF HomeArrives
<1>3. CASE UNCHANGED borrowed /\ Show(r, "portal", Absent, storage)
  BY <1>1, <1>3, ShowSettles, SameKeeps DEF HomeArrives
<1>4. CASE UNCHANGED borrowed /\ Leave(Absent, storage)
  BY <1>1, <1>4, LeaveSettles, SameKeeps DEF HomeArrives
<1>5. QED
  BY <1>2, <1>3, <1>4 DEF HomeArrives

\* The portal is shown, or the login.
LEMMA PortalKeeps ==
    ASSUME UIInv, NEW r \in Calls, PortalArrives(r)
    PROVE  UIInv'
<1>1. /\ storage \in Storage /\ Same(storage) /\ cookie \in Account /\ UITypeOK
      /\ Absent \in Target /\ page \in Page
  BY DEF UIInv, UITypeOK, Same, Target
<1>2. CASE Show(r, "login", Absent, storage)
  BY <1>1, <1>2, ShowSettles, SameKeeps DEF PortalArrives
<1>3. CASE /\ page' = [page EXCEPT !.path = "portal"]
           /\ Finish(r)
           /\ UNCHANGED storage
  <2>1. PageOK(page')
    BY <1>1, <1>3 DEF PageOK, Page
  <2>2. QED
    BY <1>1, <1>3, <2>1, FinishSettles, SameKeeps DEF PortalArrives
<1>4. QED
  BY <1>2, <1>3 DEF PortalArrives

\* The authorization page stores the cookie's user beside the token.
LEMMA AuthorizeKeeps ==
    ASSUME UIInv, NEW r \in Calls, AuthorizeArrives(r)
    PROVE  UIInv'
<1>1. /\ storage \in Storage /\ Same(storage) /\ cookie \in Account /\ UITypeOK
      /\ page \in Page /\ PageOK(page)
  BY DEF UIInv, UITypeOK, Same, PageOK
<1>2. calls[r].token \in Account /\ calls[r].target \in Target
  BY <1>1, AnswersTyped DEF AuthorizeArrives
<1>3. PICK me \in MeIs(calls[r]) :
        IF me = Absent
        THEN Show(r, "login", calls[r].target, storage) /\ UNCHANGED borrowed
        ELSE /\ storage' = [storage EXCEPT !.user = me]
             /\ borrowed' = (storage.token # Absent /\ me # storage.token)
             /\ Finish(r)
             /\ UNCHANGED page
  BY DEF AuthorizeArrives
<1>4. me \in Account /\ UNCHANGED <<cookie, out>>
  BY <1>1, <1>2 DEF MeIs, Account, AuthorizeArrives
<1>5. CASE me = Absent
  BY <1>1, <1>2, <1>3, <1>4, <1>5, ShowSettles, SameKeeps
<1>6. CASE me # Absent
  <2>1. /\ storage' \in Storage /\ storage'.token = storage.token /\ storage'.user = me
        /\ borrowed' = (storage.token # Absent /\ me # storage.token)
        /\ Finish(r) /\ UNCHANGED page
    BY <1>1, <1>3, <1>4, <1>6 DEF Storage
  <2>2. calls' \in [Calls -> {Idle, Timer} \cup Call]
    BY <1>1, <2>1 DEF Finish, UITypeOK
  <2>3. \A c \in Calls : calls'[c] = calls[c] \/ calls'[c] = Idle
    BY <1>1, <2>1 DEF Finish, UITypeOK
  <2>4. UITypeOK' /\ StorageIsOneAccounts' /\ LogoutSticks'
    <3>1. page' \in Page /\ (page'.path \in {"verify", "setup"} => page'.ticket # Absent)
      BY <1>1, <2>1 DEF PageOK
    <3>2. cookie' \in Account /\ out' \in BOOLEAN /\ borrowed' \in BOOLEAN
      BY <1>1, <1>4, <2>1 DEF UITypeOK
    <3>3. StorageIsOneAccounts' /\ LogoutSticks'
      BY <1>4, <2>1 DEF UIInv, StorageIsOneAccounts, LogoutSticks
    <3>4. QED
      BY <2>1, <2>2, <3>1, <3>2, <3>3 DEF UITypeOK
  <2>5. QED
    BY <1>4, <2>3, <2>4 DEF UIInv, Idle, Running
<1>7. QED
  BY <1>5, <1>6

\* The answers that log in, or ask for the second factor or a new password.
LEMMA LoginArrivesKeeps ==
    ASSUME UIInv, NEW r \in Calls, LoginArrives(r)
    PROVE  UIInv'
<1> DEFINE q == calls[r]
           s == [storage EXCEPT !.mfa = q.who,
                                !.mfaReturn = IF page.target # Absent THEN page.target ELSE @]
<1>1. /\ storage \in Storage /\ cookie \in Account /\ UITypeOK
      /\ page.target \in Target /\ Absent \in Target /\ q.who \in Account
  BY AnswersTyped DEF UIInv, UITypeOK, Page, Target, LoginArrives
<1>2. CASE /\ q.who \in Internal
           /\ \E path \in {"setup", "verify"} : Show(r, path, Absent, s)
           /\ UNCHANGED <<cookie, out, borrowed>>
  <2>1. s \in Storage /\ Same(s)
    BY <1>1, <1>2 DEF Storage, Same, Ticket
  <2> HIDE DEF s
  <2>2. QED
    BY <1>1, <1>2, <2>1, ShowSettles, SameKeeps
<1>3. CASE /\ q.who \in Internal
           /\ MustChange(r, q.who, page.target, storage)
           /\ UNCHANGED <<cookie, out, borrowed>>
  <2> DEFINE forced == [storage EXCEPT !.pwd = q.who, !.pwdReturn = page.target]
  <2>1. q.who \in Ticket
    BY <1>3 DEF Ticket
  <2>2. forced \in Storage /\ Settles(forced)
    BY <1>1, <1>3, <2>1, MustChangeSettles
  <2>3. Same(forced)
    BY <1>1, <2>2 DEF Same, Storage
  <2> HIDE DEF forced
  <2>4. QED
    BY <1>1, <1>3, <2>2, <2>3, SameKeeps
<1>4. CASE /\ GoOn(r, page.target, LoggedIn(storage, q.who))
           /\ Issued(q.who)
  <2>1. LoggedIn(storage, q.who) \in Storage
    BY <1>1 DEF LoggedIn, Storage
  <2>2. QED
    BY <1>1, <1>4, <2>1, GoOnSettles, LoginKeeps
<1>5. QED
  BY <1>2, <1>3, <1>4 DEF LoginArrives

\* A registration logs in.
LEMMA RegisterArrivesKeeps ==
    ASSUME UIInv, NEW r \in Calls, RegisterArrives(r)
    PROVE  UIInv'
<1>1. /\ storage \in Storage /\ UITypeOK /\ calls[r].who \in Account
  BY AnswersTyped DEF UIInv, UITypeOK, RegisterArrives
<1>2. PageOK(page')
  BY <1>1 DEF UITypeOK, PageOK, Page, RegisterArrives
<1>3. Settles(LoggedIn(storage, calls[r].who))
  BY <1>1, <1>2, FinishSettles DEF RegisterArrives
<1>4. QED
  BY <1>1, <1>3, LoginKeeps DEF RegisterArrives

\* The second factor logs in the ticket's account, or asks for a new password.
LEMMA VerifyArrivesKeeps ==
    ASSUME UIInv, NEW r \in Calls, VerifyArrives(r)
    PROVE  UIInv'
<1> DEFINE ticket == calls[r].ticket
           goal == IF page.target # Absent THEN page.target ELSE storage.mfaReturn
           s == [storage EXCEPT !.mfa = Absent, !.mfaReturn = Absent]
           forced == [s EXCEPT !.pwd = ticket, !.pwdReturn = goal]
<1>1. /\ storage \in Storage /\ cookie \in Account /\ UITypeOK
      /\ page.target \in Target /\ ticket \in Ticket
  BY AnswersTyped DEF UIInv, UITypeOK, Page, VerifyArrives
<1>2. goal \in Target /\ s \in Storage /\ Same(s) /\ ticket \in Account
  BY <1>1, InternalAssumption DEF Storage, Same, Target, Ticket, Account
<1>3. Same(forced)
  BY <1>1, <1>2 DEF Same, Storage
<1>4. \/ MustChange(r, ticket, goal, s) /\ UNCHANGED <<cookie, out, borrowed>>
      \/ GoOn(r, goal, LoggedIn(s, ticket)) /\ Issued(ticket)
  BY DEF VerifyArrives
<1> HIDE DEF s, goal, ticket
<1>5. CASE MustChange(r, ticket, goal, s) /\ UNCHANGED <<cookie, out, borrowed>>
  BY <1>1, <1>2, <1>3, <1>5, MustChangeSettles, SameKeeps
<1>6. CASE GoOn(r, goal, LoggedIn(s, ticket)) /\ Issued(ticket)
  <2>1. LoggedIn(s, ticket) \in Storage
    BY <1>2 DEF LoggedIn, Storage
  <2>2. QED
    BY <1>1, <1>2, <1>6, <2>1, GoOnSettles, LoginKeeps
<1>7. QED
  BY <1>4, <1>5, <1>6

\* Enabling the second factor logs in, or stores nothing but that it is done.
LEMMA EnableArrivesKeeps ==
    ASSUME UIInv, NEW r \in Calls, EnableArrives(r)
    PROVE  UIInv'
<1> DEFINE ticket == calls[r].ticket
           s == [storage EXCEPT !.mfa = Absent]
<1>1. /\ storage \in Storage /\ cookie \in Account /\ UITypeOK
      /\ ticket \in Ticket /\ page \in Page
  BY AnswersTyped DEF UIInv, UITypeOK, EnableArrives
<1>2. s \in Storage /\ Same(s) /\ ticket \in Account
  BY <1>1, InternalAssumption DEF Storage, Same, Ticket, Account
<1>3. PageOK(page')
  BY <1>1 DEF UITypeOK, PageOK, Page, EnableArrives
<1>4. Settles(storage')
  BY <1>1, <1>3, FinishSettles DEF EnableArrives
<1>5. \/ storage' = LoggedIn(s, ticket) /\ Issued(ticket)
      \/ storage' = s /\ UNCHANGED <<cookie, out, borrowed>>
  BY DEF EnableArrives
<1> HIDE DEF s, ticket
<1>6. QED
  BY <1>1, <1>2, <1>4, <1>5, LoginKeeps, SameKeeps

\* A change of the password logs in.
LEMMA ChangeArrivesKeeps ==
    ASSUME UIInv, NEW r \in Calls, ChangeArrives(r)
    PROVE  UIInv'
<1> DEFINE q == calls[r]
           s == [storage EXCEPT !.pwd = Absent, !.pwdReturn = Absent]
<1>1. /\ storage \in Storage /\ cookie \in Account /\ UITypeOK
      /\ q.ticket \in Ticket /\ q.token \in Account
  BY AnswersTyped DEF UIInv, UITypeOK, ChangeArrives
<1>2. s \in Storage /\ storage.pwdReturn \in Target
  BY <1>1 DEF Storage, Ticket, Target
<1>3. PICK u \in IF q.ticket # Absent THEN {q.ticket} ELSE {q.token, cookie} \ {Absent} :
        /\ GoTo(r, storage.pwdReturn, LoggedIn(s, u))
        /\ Issued(u)
  BY DEF ChangeArrives
<1>4. u \in Account
  BY <1>1, <1>3, InternalAssumption DEF Ticket, Account
<1> HIDE DEF s
<1>5. LoggedIn(s, u) \in Storage
  BY <1>2, <1>4 DEF LoggedIn, Storage
<1>6. QED
  BY <1>1, <1>2, <1>3, <1>4, <1>5, GoToSettles, LoginKeeps

\* A logout empties the storage and makes every request under way one of before.
LEMMA LogoutArrivesKeeps ==
    ASSUME UIInv, NEW r \in Calls, LogoutArrives(r)
    PROVE  UIInv'
<1>1. UITypeOK
  BY DEF UIInv
<1>2. storage' \in Storage /\ storage'.token = Absent
  BY <1>1 DEF LogoutArrives, Cleared, UITypeOK, Storage, Account
<1>3. page' \in Page /\ (page'.path \in {"verify", "setup"} => page'.ticket # Absent)
  BY DEF LogoutArrives, Page, Ticket, Target
<1>4. cookie' \in Account /\ out' = TRUE /\ borrowed' = FALSE
  BY <1>1 DEF LogoutArrives, UITypeOK, Account
<1>5. /\ calls' \in [Calls -> {Idle, Timer} \cup Call]
      /\ \A c \in Calls : \/ calls'[c] \in {Idle, Timer}
                         \/ /\ calls[c] \in Call
                            /\ calls'[c] = [calls[c] EXCEPT !.old = TRUE]
  <2>1. \A c \in Calls : calls[c] \in {Idle, Timer} \/ calls[c] \in Call
    BY <1>1 DEF UITypeOK
  <2>2. \A q \in Call : [q EXCEPT !.old = TRUE] \in Call
    BY DEF Call
  <2>3. QED
    BY <2>1, <2>2 DEF LogoutArrives
<1>6. UITypeOK' /\ StorageIsOneAccounts' /\ LogoutSticks'
  BY <1>2, <1>3, <1>4, <1>5 DEF UITypeOK, StorageIsOneAccounts, LogoutSticks
<1>7. ASSUME NEW c \in Calls
      PROVE  /\ calls'[c].at \in Running /\ calls'[c].token # Absent /\ out' => calls'[c].old
             /\ calls'[c].at \in {"renewing", "renewed"} => calls'[c].token # Absent
  <2>1. CASE calls'[c] \in {Idle, Timer}
    BY <2>1 DEF Idle, Timer, Running
  <2>2. CASE calls[c] \in Call /\ calls'[c] = [calls[c] EXCEPT !.old = TRUE]
    <3>1. calls'[c].old /\ calls'[c].at = calls[c].at /\ calls'[c].token = calls[c].token
      BY <2>2 DEF Call
    <3>2. QED
      BY <3>1 DEF UIInv
  <2>3. QED
    BY <1>5, <2>1, <2>2
<1>8. QED
  BY <1>6, <1>7 DEF UIInv

-----------------------------------------------------------------------------
(* Refusals and the renewal of the token.                                  *)

\* A refusal drops a ticket at most.
LEMMA RefusedSettles ==
    ASSUME UITypeOK, NEW r \in Calls, NEW s \in Storage, Refused(r, s)
    PROVE  /\ Settles(storage') /\ storage' \in Storage
           /\ storage'.token = s.token /\ storage'.user = s.user
<1>1. /\ [s EXCEPT !.mfa = Absent] \in Storage /\ [s EXCEPT !.pwd = Absent] \in Storage
      /\ [s EXCEPT !.mfa = Absent].token = s.token /\ [s EXCEPT !.mfa = Absent].user = s.user
      /\ [s EXCEPT !.pwd = Absent].token = s.token /\ [s EXCEPT !.pwd = Absent].user = s.user
  BY DEF Storage, Ticket
<1>2. storage' \in {s, [s EXCEPT !.mfa = Absent], [s EXCEPT !.pwd = Absent]}
  BY DEF Refused
<1>3. page' = page /\ (Finish(r) \/ calls' = [calls EXCEPT ![r] = Timer])
  BY DEF Refused
<1>4. Settles(storage')
  BY <1>3 DEF Settles, Finish, UITypeOK, PageOK
<1>5. QED
  BY <1>1, <1>2, <1>4

\* Steps of a renewal that leave everything but the request, and its token and age.
LEMMA RenewalKeeps ==
    ASSUME UIInv, NEW r \in Calls, NEW q \in Call,
           calls[r].at \in Running, calls[r].token # Absent,
           q.token = calls[r].token, q.old = calls[r].old,
           calls' = [calls EXCEPT ![r] = q], UNCHANGED <<storage, cookie, page, out, borrowed>>
    PROVE  UIInv'
<1>1. /\ calls' \in [Calls -> {Idle, Timer} \cup Call]
      /\ calls'[r] = q
      /\ \A c \in Calls \ {r} : calls'[c] = calls[c]
  BY DEF UIInv, UITypeOK
<1>2. UITypeOK' /\ StorageIsOneAccounts' /\ LogoutSticks'
  BY <1>1 DEF UIInv, UITypeOK, StorageIsOneAccounts, LogoutSticks
<1>3. q.token # Absent /\ (out => q.old)
  BY DEF UIInv
<1>4. ASSUME NEW c \in Calls
      PROVE  /\ calls'[c].at \in Running /\ calls'[c].token # Absent /\ out' => calls'[c].old
             /\ calls'[c].at \in {"renewing", "renewed"} => calls'[c].token # Absent
  <2>1. CASE c = r
    BY <1>1, <1>3, <2>1
  <2>2. CASE c # r
    BY <1>1, <2>2 DEF UIInv
  <2>3. QED
    BY <2>1, <2>2
<1>5. QED
  BY <1>2, <1>4 DEF UIInv

\* A 401 renews what was sent with a token, or is a refusal.
LEMMA UnauthorizedKeeps ==
    ASSUME UIInv, NEW r \in Calls, Unauthorized(r)
    PROVE  UIInv'
<1> DEFINE q == [calls[r] EXCEPT !.at = "renewing"]
<1>1. /\ storage \in Storage /\ UITypeOK /\ cookie' \in Account
      /\ UNCHANGED <<cookie, out, borrowed>>
  BY DEF UIInv, UITypeOK, Unauthorized
<1>2. CASE /\ calls[r].token # Absent
           /\ calls' = [calls EXCEPT ![r].at = "renewing"]
           /\ UNCHANGED <<storage, page>>
  <2>1. calls[r] \in Call /\ calls[r].at \in Running
    BY <1>1 DEF Unauthorized, UITypeOK, Idle, Timer, Running
  <2>2. q \in Call /\ q.token = calls[r].token /\ q.old = calls[r].old
    BY <2>1 DEF Call
  <2>3. calls' = [calls EXCEPT ![r] = q]
    BY <1>2
  <2> HIDE DEF q
  <2>4. QED
    BY <1>1, <1>2, <2>1, <2>2, <2>3, RenewalKeeps
<1>3. CASE Refused(r, storage)
  BY <1>1, <1>3, RefusedSettles, SameKeeps DEF Same
<1>4. QED
  BY <1>2, <1>3 DEF Unauthorized

\* A renewal is answered.
LEMMA RenewAnswersKeeps ==
    ASSUME UIInv, NEW r \in Calls, RenewAnswers(r)
    PROVE  UIInv'
<1> DEFINE q == [calls[r] EXCEPT !.at = "renewed", !.as = cookie]
<1>1. UITypeOK /\ cookie \in Account
  BY DEF UIInv, UITypeOK
<1>2. calls[r] \in Call /\ calls[r].at \in Running /\ calls[r].token # Absent
  BY <1>1 DEF RenewAnswers, UIInv, UITypeOK, Idle, Timer, Running
<1>3. q \in Call /\ q.token = calls[r].token /\ q.old = calls[r].old
  BY <1>1, <1>2 DEF Call
<1>4. calls' = [calls EXCEPT ![r] = q] /\ UNCHANGED <<storage, cookie, page, out, borrowed>>
  BY <1>1, <1>2 DEF RenewAnswers, UITypeOK, Call
<1> HIDE DEF q
<1>5. QED
  BY <1>2, <1>3, <1>4, RenewalKeeps

\* A renewed token is stored with its user.  After a logout the request is one
\* of before it, so it ends what the logout began.
LEMMA RenewArrivesKeeps ==
    ASSUME UIInv, NEW r \in Calls, RenewArrives(r)
    PROVE  UIInv'
<1> DEFINE q == calls[r]
           again == [q EXCEPT !.at = "sent", !.retry = TRUE, !.token = q.as, !.as = Absent]
<1>1. UITypeOK /\ q \in Call /\ q.at = "renewed" /\ q.token # Absent /\ q.as # Absent
  BY DEF RenewArrives, UIInv, UITypeOK, Idle, Timer
<1>2. q.as \in Account /\ q.old \in BOOLEAN /\ Absent \in Account
  BY <1>1 DEF Call, Account
<1>3. again \in Call /\ again.at = "sent"
  BY <1>1, <1>2 DEF Call
<1>4. /\ storage' = LoggedIn(storage, q.as)
      /\ calls' = [calls EXCEPT ![r] = again]
      /\ out' = (out /\ ~q.old) /\ borrowed' = FALSE
      /\ UNCHANGED <<cookie, page>>
  BY DEF RenewArrives
<1>5. out' = FALSE
  BY <1>1, <1>2, <1>4 DEF UIInv, UITypeOK, Running
<1>6. storage' \in Storage /\ storage'.token = q.as /\ storage'.user = q.as
  BY <1>1, <1>2, <1>4 DEF UITypeOK, LoggedIn, Storage
<1> HIDE DEF again
<1>7. /\ calls' \in [Calls -> {Idle, Timer} \cup Call]
      /\ \A c \in Calls : calls'[c] = calls[c] \/ calls'[c] = again
  BY <1>1, <1>3, <1>4 DEF UITypeOK
<1>8. UITypeOK' /\ StorageIsOneAccounts' /\ LogoutSticks'
  BY <1>1, <1>4, <1>5, <1>6, <1>7 DEF UITypeOK, StorageIsOneAccounts, LogoutSticks
<1>9. QED
  BY <1>3, <1>5, <1>7, <1>8 DEF UIInv

\* A renewal that fails clears the storage.
LEMMA RenewFailsKeeps ==
    ASSUME UIInv, NEW r \in Calls, RenewFails(r)
    PROVE  UIInv'
<1>1. UITypeOK /\ cookie' \in Account /\ out' = out /\ borrowed' \in BOOLEAN
  BY DEF UIInv, UITypeOK, RenewFails
<1>2. Cleared(storage) \in Storage /\ Cleared(storage).token = Absent
  BY <1>1 DEF UITypeOK, Cleared, Storage, Account
<1>3. QED
  BY <1>1, <1>2, RefusedSettles, ClearedKeeps DEF RenewFails

\* Every answer keeps the invariant.
LEMMA ArriveKeeps ==
    ASSUME UIInv, NEW r \in Calls, Arrive(r)
    PROVE  UIInv'
<1>1. /\ storage \in Storage /\ Same(storage) /\ cookie \in Account /\ UITypeOK
      /\ PageOK(page) /\ Absent \in Target
  BY DEF UIInv, UITypeOK, Same, PageOK, Target
<1>2. CASE SetupArrives(r) \/ Fails(r)
  BY <1>1, <1>2, FinishSettles, SameKeeps DEF SetupArrives, Fails
<1>3. CASE TimerFires(r)
  BY <1>1, <1>3, ShowSettles, SameKeeps DEF TimerFires
<1>4. QED
  BY <1>2, <1>3, HomeKeeps, PortalKeeps, AuthorizeKeeps, LoginArrivesKeeps,
     RegisterArrivesKeeps, VerifyArrivesKeeps, EnableArrivesKeeps, ChangeArrivesKeeps,
     LogoutArrivesKeeps, UnauthorizedKeeps, RenewAnswersKeeps, RenewArrivesKeeps,
     RenewFailsKeeps DEF Arrive

-----------------------------------------------------------------------------
(* The theorems about the pages.                                           *)

\* Every step keeps the invariant.
LEMMA UIInvariant == Spec => []UIInv
<1>1. Init => UIInv
  <2> SUFFICES ASSUME Init PROVE UIInv
    OBVIOUS
  <2>1. Absent \in Account /\ Absent \in Ticket /\ Absent \in Target
    BY DEF Account, Ticket, Target
  <2>2. UITypeOK
    BY <2>1 DEF Init, UITypeOK, Storage, Page
  <2>3. QED
    BY <2>2 DEF Init, UIInv, StorageIsOneAccounts, LogoutSticks, Idle, Running
<1>2. UIInv /\ [Next]_vars => UIInv'
  <2> SUFFICES ASSUME UIInv, [Next]_vars PROVE UIInv'
    OBVIOUS
  <2>1. ASSUME NEW u \in Account, CookieChanges(u) PROVE UIInv'
    BY <2>1 DEF CookieChanges, UIInv, UITypeOK, StorageIsOneAccounts, LogoutSticks
  <2>2. CASE UNCHANGED vars
    BY <2>2 DEF vars, UIInv, UITypeOK, StorageIsOneAccounts, LogoutSticks
  <2>3. QED
    BY <2>1, <2>2, ActKeeps, ArriveKeeps DEF Next
<1>3. QED
  BY <1>1, <1>2, PTL DEF Spec

\* Type correctness: every navigation, answer and renewal leaves the storage, the
\* page and the requests of their types, the pages of the second factor only shown
\* with a ticket.
THEOREM UITypesCorrect == Spec => []UITypeOK
<1>1. UIInv => UITypeOK
  BY DEF UIInv
<1>2. QED
  BY <1>1, UIInvariant, PTL

\* The token and the user in the storage are one account's, whatever answers
\* arrive late, but for the user AuthorizePage stores (api.ts 244-245).
THEOREM StorageStaysOneAccounts == Spec => []StorageIsOneAccounts
<1>1. UIInv => StorageIsOneAccounts
  BY DEF UIInv
<1>2. QED
  BY <1>1, UIInvariant, PTL

\* After Keluar no token is stored until a login, or a renewal that was under way,
\* stores one (PortalPage 341-349, api.ts 297).
THEOREM LogoutsStick == Spec => []LogoutSticks
<1>1. UIInv => LogoutSticks
  BY DEF UIInv
<1>2. QED
  BY <1>1, UIInvariant, PTL

-----------------------------------------------------------------------------
(* The console.  Types first: a version counts clicks that made it, and no   *)
(* click whose submission is still to be served is counted in one yet.       *)

Task == {NoTask} \cup Entry \cup ListLoad \cup Submission

Pending == {t \in Tasks : tasks[t].at = "submitted"}

VersionsBounded ==
    /\ IsFiniteSet(Pending)
    /\ \A v \in Views : version[v] + Cardinality(Pending) <= clicks
    /\ \A c \in Clients : secret[c] # None => secret[c] + Cardinality(Pending) <= clicks + 1

\* A change of one client says which.
OnClient(q) ==
    /\ q.at \in {"submitted", "changed"} /\ q.kind \in {"edit", "delete", "regen"} =>
           q.on \in Clients
    /\ q.at = "changed" /\ q.kind = "create" => q.on \in Clients

DialogOnClient(m) == m.kind \in {"edit", "delete", "regen", "secret"} => m.on \in Clients

ConsoleTypes ==
    /\ AdminTypeOK
    /\ VersionsBounded
    /\ \A t \in Tasks : OnClient(tasks[t])
    /\ DialogOnClient(modal)

\* What is at a stage is of its kind.
LEMMA TaskShapes ==
    ASSUME NEW q \in Task
    PROVE  /\ q.at \in {"sent", "answered"} => q \in ListLoad
           /\ q.at \in {"submitted", "changed"} => q \in Submission
           /\ q.at \notin {"submitted", "changed"} => OnClient(q)
BY DEF Task, NoTask, Entry, ListLoad, Submission, OnClient

\* A step of one handler.
LEMMA TaskMoves ==
    ASSUME ConsoleTypes, NEW t \in Tasks, NEW q \in Task, OnClient(q),
           tasks' = [tasks EXCEPT ![t] = q]
    PROVE  /\ tasks' \in [Tasks -> Task]
           /\ tasks'[t] = q /\ \A u \in Tasks \ {t} : tasks'[u] = tasks[u]
           /\ \A u \in Tasks : OnClient(tasks'[u])
           /\ Pending' = IF q.at = "submitted" THEN Pending \cup {t} ELSE Pending \ {t}
<1>1. tasks \in [Tasks -> Task]
  BY DEF ConsoleTypes, AdminTypeOK, Task
<1>2. /\ tasks' \in [Tasks -> Task]
      /\ tasks'[t] = q /\ \A u \in Tasks \ {t} : tasks'[u] = tasks[u]
  BY <1>1
<1>3. \A u \in Tasks : OnClient(tasks'[u])
  BY <1>2 DEF ConsoleTypes
<1>4. Pending' = IF q.at = "submitted" THEN Pending \cup {t} ELSE Pending \ {t}
  BY <1>2 DEF Pending
<1>5. QED
  BY <1>2, <1>3, <1>4

\* The numbers of the bound.
LEMMA Numbers ==
    ASSUME ConsoleTypes
    PROVE  /\ clicks \in Nat /\ clicks <= MaxClicks /\ MaxClicks \in Nat
           /\ IsFiniteSet(Pending) /\ Cardinality(Pending) \in Nat
           /\ \A v \in Views : version[v] \in Nat /\ version[v] \in Versions
           /\ \A c \in Clients : secret[c] # None => secret[c] \in Nat
<1>1. clicks \in 0 .. MaxClicks /\ MaxClicks \in Nat
  BY AdminBoundsAssumption DEF ConsoleTypes, AdminTypeOK
<1>2. IsFiniteSet(Pending)
  BY DEF ConsoleTypes, VersionsBounded
<1>3. Cardinality(Pending) \in Nat
  BY <1>2, FS_CardinalityType
<1>4. /\ \A v \in Views : version[v] \in Versions
      /\ \A c \in Clients : secret[c] \in Versions \cup {None}
  BY DEF ConsoleTypes, AdminTypeOK
<1>5. Versions \subseteq Nat
  BY <1>1 DEF Versions
<1>6. clicks \in Nat /\ clicks <= MaxClicks
  BY <1>1
<1>7. /\ \A v \in Views : version[v] \in Nat
      /\ \A c \in Clients : secret[c] # None => secret[c] \in Nat
  BY <1>4, <1>5
<1>8. QED
  BY <1>1, <1>2, <1>3, <1>4, <1>6, <1>7

\* Steps that make no version, and submit at most with a click.
LEMMA QuietBound ==
    ASSUME ConsoleTypes, NEW t, UNCHANGED store, clicks' \in Nat, clicks' >= clicks,
           \/ Pending' = Pending \ {t}
           \/ Pending' = Pending
           \/ Pending' = Pending \cup {t} /\ clicks' = clicks + 1
    PROVE  VersionsBounded'
<1>1. /\ clicks \in Nat /\ IsFiniteSet(Pending) /\ Cardinality(Pending) \in Nat
      /\ \A v \in Views : version[v] \in Nat
      /\ \A c \in Clients : secret[c] # None => secret[c] \in Nat
  BY Numbers
<1>2. version' = version /\ secret' = secret
  BY DEF store
<1>3. /\ IsFiniteSet(Pending') /\ Cardinality(Pending') \in Nat
      /\ Cardinality(Pending') - clicks' <= Cardinality(Pending) - clicks
  <2>1. CASE Pending' = Pending \ {t}
    <3>1. /\ IsFiniteSet(Pending')
          /\ Cardinality(Pending') \in {Cardinality(Pending), Cardinality(Pending) - 1}
      BY <1>1, <2>1, FS_RemoveElement
    <3>2. Cardinality(Pending') \in Nat
      BY <3>1, FS_CardinalityType
    <3>3. QED
      BY <1>1, <3>1, <3>2
  <2>2. CASE Pending' = Pending
    BY <1>1, <2>2
  <2>3. CASE Pending' = Pending \cup {t} /\ clicks' = clicks + 1
    BY <1>1, <2>3, FS_AddElement
  <2>4. QED
    BY <2>1, <2>2, <2>3
<1>4. /\ \A v \in Views : version[v] + Cardinality(Pending) <= clicks
      /\ \A c \in Clients : secret[c] # None => secret[c] + Cardinality(Pending) <= clicks + 1
  BY DEF ConsoleTypes, VersionsBounded
<1>5. \A v \in Views : version'[v] + Cardinality(Pending') <= clicks'
  BY <1>1, <1>2, <1>3, <1>4
<1>6. \A c \in Clients : secret'[c] # None => secret'[c] + Cardinality(Pending') <= clicks' + 1
  BY <1>1, <1>2, <1>3, <1>4
<1>7. QED
  BY <1>3, <1>5, <1>6 DEF VersionsBounded

\* Steps that make a version, and serve a submission for it.
LEMMA ServedBound ==
    ASSUME ConsoleTypes, NEW t \in Pending, Pending' = Pending \ {t}, clicks' = clicks,
           \A v \in Views : version'[v] \in {version[v], version[v] + 1},
           \A c \in Clients : \/ secret'[c] \in {secret[c], None, 1}
                              \/ secret[c] # None /\ secret'[c] = secret[c] + 1
    PROVE  /\ VersionsBounded'
           /\ \A v \in Views : version'[v] \in Versions /\ version[v] + 1 \in Versions
           /\ \A c \in Clients : /\ secret'[c] \in Versions \cup {None}
                                 /\ secret[c] # None => secret[c] + 1 \in Versions
<1>1. /\ clicks \in Nat /\ clicks <= MaxClicks /\ MaxClicks \in Nat
      /\ IsFiniteSet(Pending) /\ Cardinality(Pending) \in Nat
      /\ \A v \in Views : version[v] \in Nat
      /\ \A c \in Clients : secret[c] # None => secret[c] \in Nat
  BY Numbers
<1>2. /\ IsFiniteSet(Pending') /\ Cardinality(Pending') = Cardinality(Pending) - 1
      /\ Cardinality(Pending') \in Nat
  BY <1>1, FS_RemoveElement, FS_CardinalityType
<1>3. /\ \A v \in Views : version[v] + Cardinality(Pending) <= clicks
      /\ \A c \in Clients : secret[c] # None => secret[c] + Cardinality(Pending) <= clicks + 1
  BY DEF ConsoleTypes, VersionsBounded
<1>4. ASSUME NEW v \in Views
      PROVE  /\ version'[v] + Cardinality(Pending') <= clicks' /\ version'[v] \in Versions
             /\ version[v] + 1 \in Versions
  BY <1>1, <1>2, <1>3 DEF Versions
<1>5. ASSUME NEW c \in Clients
      PROVE  /\ secret'[c] # None => secret'[c] + Cardinality(Pending') <= clicks' + 1
             /\ secret'[c] \in Versions \cup {None}
             /\ secret[c] # None => secret[c] + 1 \in Versions
  <2>1. secret[c] # None => secret[c] + 1 \in Versions /\ secret[c] \in Versions
    BY <1>1, <1>2, <1>3 DEF Versions
  <2>2. CASE secret'[c] \in {secret[c], None, 1}
    <3>1. /\ version["clients"] \in Nat
          /\ version["clients"] + Cardinality(Pending) <= clicks
      BY <1>1, <1>3 DEF Views
    <3>2. 1 \in Versions /\ 1 + Cardinality(Pending') <= clicks' + 1
      BY <1>1, <1>2, <3>1 DEF Versions
    <3>3. /\ secret[c] # None => secret[c] \in Versions
          /\ secret[c] # None => secret[c] + Cardinality(Pending') <= clicks' + 1
      BY <1>1, <1>2, <1>3, <2>1
    <3>4. QED
      BY <2>1, <2>2, <3>2, <3>3
  <2>3. CASE secret[c] # None /\ secret'[c] = secret[c] + 1
    BY <1>1, <1>2, <1>3, <2>1, <2>3
  <2>4. QED
    BY <2>1, <2>2, <2>3
<1>6. QED
  BY <1>2, <1>4, <1>5 DEF VersionsBounded

Console == [open: BOOLEAN, view: Views, nav: Views, client: Clients \cup {None},
            want: [Views -> Filters \cup {All}]]
Drawn == [view: Views, client: Clients \cup {None}, table: BOOLEAN]
Flags == [Views -> BOOLEAN]

\* A list is asked for by its filters.
LEMMA QueryTyped ==
    ASSUME NEW v \in Views, NEW c \in Console
    PROVE  Query(v, c) \in Queries
BY DEF Query, Queries, Console

\* What renderMain draws.
LEMMA RenderedTyped ==
    ASSUME NEW c \in Console, NEW l \in Flags, dom \in Drawn
    PROVE  Rendered(c, l) \in Drawn
BY DEF Rendered, Console, Flags, Drawn

\* What the bound allows of the clicks.
LEMMA ClicksTyped ==
    ASSUME ConsoleTypes, clicks' = clicks \/ (clicks < MaxClicks /\ clicks' = clicks + 1)
    PROVE  clicks' \in Nat /\ clicks' >= clicks /\ clicks' \in 0 .. MaxClicks
BY Numbers

\* A step that begins a load of the list v in the console c.
LEMMA StartLoadTypes ==
    ASSUME ConsoleTypes, NEW t \in Tasks, NEW v \in Views, NEW p \in PageNumber,
           NEW c \in Console, NEW d \in Drawn,
           StartLoad(t, v, p, c, d),
           clicks' = clicks \/ (clicks < MaxClicks /\ clicks' = clicks + 1),
           modal' \in Modal, DialogOnClient(modal'), own' \in [Views -> Versions],
           UNCHANGED <<store, list, stale, owed, crossed>>
    PROVE  ConsoleTypes'
<1> DEFINE q == [at |-> "sent", view |-> v, query |-> Query(v, c), page |-> p, ver |-> 0]
<1>1. AdminTypeOK
  BY DEF ConsoleTypes
<1>2. MaxClicks \in Nat /\ 0 \in Versions
  BY AdminBoundsAssumption DEF Versions
<1>3. q \in Task /\ OnClient(q) /\ q.at = "sent"
  <2>1. q \in ListLoad
    BY <1>2, QueryTyped DEF ListLoad
  <2>2. QED
    BY <2>1, TaskShapes DEF Task
<1>4. /\ tasks' = [tasks EXCEPT ![t] = q]
      /\ loading' = [loading EXCEPT ![v] = TRUE]
      /\ dom' = IF v = "users" THEN Rendered(c, loading') ELSE d
      /\ raced' = [raced EXCEPT ![v] = InFlight(v) \ {t} # {}]
      /\ console' = c
  BY DEF StartLoad, StartLoadOf
<1> HIDE DEF q
<1>5. /\ tasks' \in [Tasks -> Task]
      /\ \A u \in Tasks : OnClient(tasks'[u])
      /\ Pending' = Pending \ {t}
  BY <1>3, <1>4, TaskMoves
<1>6. loading' \in Flags /\ raced' \in Flags /\ dom \in Drawn
  BY <1>1, <1>4 DEF AdminTypeOK, Flags, Drawn
<1>7. dom' \in Drawn /\ console' \in Console
  BY <1>4, <1>6, RenderedTyped
<1>8. clicks' \in Nat /\ clicks' >= clicks /\ clicks' \in 0 .. MaxClicks
  BY ClicksTyped
<1>9. AdminTypeOK'
  <2>1. secret' \in [Clients -> Versions \cup {None}] /\ version' \in [Views -> Versions]
    BY <1>1 DEF AdminTypeOK, store
  <2>2. tasks' \in [Tasks -> {NoTask} \cup Entry \cup ListLoad \cup Submission]
    BY <1>5 DEF Task
  <2>3. QED
    BY <1>1, <1>6, <1>7, <1>8, <2>1, <2>2 DEF AdminTypeOK, Flags, Console, Drawn
<1>10. VersionsBounded'
  BY <1>5, <1>8, QuietBound
<1>11. QED
  BY <1>5, <1>9, <1>10 DEF ConsoleTypes

\* A step of a handler that changes nothing listed, nor the version of anything.
LEMMA QuietTypes ==
    ASSUME ConsoleTypes, NEW t \in Tasks, NEW q \in Task, OnClient(q),
           tasks' = [tasks EXCEPT ![t] = q],
           \/ q.at # "submitted" /\ clicks' = clicks
           \/ clicks < MaxClicks /\ clicks' = clicks + 1,
           console' \in Console, list' \in [Views -> List], loading' \in Flags, dom' \in Drawn,
           modal' \in Modal, DialogOnClient(modal'), stale' \in Flags, crossed' \in BOOLEAN,
           UNCHANGED <<store, raced, own, owed>>
    PROVE  ConsoleTypes'
<1>1. AdminTypeOK
  BY DEF ConsoleTypes
<1>2. /\ tasks' \in [Tasks -> Task]
      /\ \A u \in Tasks : OnClient(tasks'[u])
      /\ Pending' = IF q.at = "submitted" THEN Pending \cup {t} ELSE Pending \ {t}
  BY TaskMoves
<1>3. clicks' \in Nat /\ clicks' >= clicks /\ clicks' \in 0 .. MaxClicks
  BY ClicksTyped
<1>4. VersionsBounded'
  BY <1>2, <1>3, QuietBound
<1>5. AdminTypeOK'
  <2>1. secret' \in [Clients -> Versions \cup {None}] /\ version' \in [Views -> Versions]
    BY <1>1 DEF AdminTypeOK, store
  <2>2. tasks' \in [Tasks -> {NoTask} \cup Entry \cup ListLoad \cup Submission]
    BY <1>2 DEF Task
  <2>3. QED
    BY <1>1, <1>3, <2>1, <2>2 DEF AdminTypeOK, Flags, Console, Drawn
<1>6. QED
  BY <1>2, <1>4, <1>5 DEF ConsoleTypes

\* A step of the server that serves a submission.
LEMMA ServedTypes ==
    ASSUME ConsoleTypes, NEW t \in Pending, NEW q \in Task, OnClient(q), q.at = "changed",
           tasks' = [tasks EXCEPT ![t] = q],
           secret' \in [Clients -> Versions \cup {None}], version' \in [Views -> Versions],
           VersionsBounded', owed' \subseteq Clients,
           UNCHANGED <<screen, raced, stale, own, crossed, clicks>>
    PROVE  ConsoleTypes'
<1>1. AdminTypeOK /\ t \in Tasks
  BY DEF ConsoleTypes, Pending
<1>2. tasks' \in [Tasks -> Task] /\ \A u \in Tasks : OnClient(tasks'[u])
  BY <1>1, TaskMoves
<1>3. tasks' \in [Tasks -> {NoTask} \cup Entry \cup ListLoad \cup Submission]
  BY <1>2 DEF Task
<1>4. AdminTypeOK'
  BY <1>1, <1>3 DEF AdminTypeOK, screen
<1>5. QED
  BY <1>2, <1>4 DEF ConsoleTypes, screen

\* The types by their names here.
LEMMA TypesNamed ==
    ASSUME ConsoleTypes
    PROVE  /\ AdminTypeOK /\ console \in Console /\ list \in [Views -> List]
           /\ loading \in Flags /\ dom \in Drawn /\ modal \in Modal /\ stale \in Flags
           /\ own \in [Views -> Versions] /\ crossed \in BOOLEAN /\ owed \subseteq Clients
           /\ DialogOnClient(modal)
           /\ \A t \in Tasks : tasks[t] \in Task /\ OnClient(tasks[t])
BY DEF ConsoleTypes, AdminTypeOK, Console, Flags, Drawn, Task

\* The first page, the page shown and its neighbours.
LEMMA PagesTyped ==
    ASSUME ConsoleTypes, NEW v \in Views
    PROVE  /\ 1 \in PageNumber /\ list[v].page \in PageNumber
           /\ MetaOf(v).page \in PageNumber
           /\ MetaOf(v).page > 1 => MetaOf(v).page - 1 \in PageNumber
           /\ list[v].page > 1 => list[v].page - 1 \in PageNumber
           /\ MetaOf(v).page < MetaOf(v).total => MetaOf(v).page + 1 \in PageNumber
           /\ \A p \in 1 .. list[v].total : p \in PageNumber
<1>1. MaxPage \in Nat \ {0}
  BY AdminBoundsAssumption
<1>2. \A w \in Views : list[w] \in List
  BY DEF ConsoleTypes, AdminTypeOK
<1>3. MetaOf(v) \in List
  BY <1>2 DEF MetaOf, Views
<1>4. \A l \in List : l.page \in PageNumber /\ l.total \in {1, MaxPage}
  BY DEF List
<1>5. QED
  BY <1>1, <1>2, <1>3, <1>4 DEF PageNumber

\* What the administrator does keeps the types.
LEMMA AdminTypes ==
    ASSUME ConsoleTypes, NEW t \in Tasks, Admin(t)
    PROVE  ConsoleTypes'
<1> USE TypesNamed
<1>1. NoTask \in Task /\ OnClient(NoTask)
  BY DEF Task, NoTask, OnClient
<1>2. CASE Enter(t)
  <2>1. [at |-> "me"] \in Task /\ OnClient([at |-> "me"])
    BY DEF Task, Entry, OnClient
  <2>2. QED
    BY <1>2, <2>1, QuietTypes DEF Enter, screen
<1>3. ASSUME NEW v \in Views, Nav(t, v) PROVE ConsoleTypes'
  <2>1. [console EXCEPT !.view = v, !.nav = v, !.client = None] \in Console
    BY DEF Console
  <2>2. (IF v = "clients" THEN list[v].page ELSE 1) \in PageNumber
    BY PagesTyped
  <2>3. QED
    BY <1>3, <2>1, <2>2, StartLoadTypes DEF Nav, Click, UnchangedByLoad
<1>4. ASSUME NEW v \in Views, NEW p \in PageNumber, TurnTo(t, v, p) PROVE ConsoleTypes'
  BY <1>4, StartLoadTypes DEF TurnTo, Click, UnchangedByLoad
<1>5. ASSUME NEW v \in Views, Prev(t, v) \/ NextPage(t, v) PROVE ConsoleTypes'
  BY <1>4, <1>5, PagesTyped DEF Prev, NextPage
<1>6. ASSUME NEW v \in Views, NEW p \in PageNumber, GoToPage(t, v, p) PROVE ConsoleTypes'
  BY <1>4, <1>6 DEF GoToPage
<1>7. ASSUME NEW c \in Clients, ViewLogs(t, c) PROVE ConsoleTypes'
  <2>1. [console EXCEPT !.view = "logs", !.nav = "logs", !.client = c] \in Console
    BY DEF Console, Views
  <2>2. "logs" \in Views
    BY DEF Views
  <2>3. QED
    BY <1>7, <2>1, <2>2, PagesTyped, StartLoadTypes DEF ViewLogs, Click, UnchangedByLoad
<1>8. CASE LogsBack(t)
  <2>1. [console EXCEPT !.view = "clients", !.nav = "clients", !.client = None] \in Console
    BY DEF Console, Views
  <2>2. "clients" \in Views
    BY DEF Views
  <2>3. QED
    BY <1>8, <2>1, <2>2, PagesTyped, StartLoadTypes DEF LogsBack, Click, UnchangedByLoad
<1>9. ASSUME NEW v \in Views, NEW f \in Filters \cup {All}, Filter(t, v, f) PROVE ConsoleTypes'
  <2>1. [console EXCEPT !.want[v] = f] \in Console
    BY DEF Console
  <2>2. QED
    BY <1>9, <2>1, PagesTyped, StartLoadTypes DEF Filter, Click, UnchangedByLoad
<1>10. 0 \in Versions /\ None \in Clients \cup {None}
  BY AdminBoundsAssumption DEF Versions
<1>11. CASE SubmitModal(t)
  <2> DEFINE q == [at |-> "submitted", kind |-> modal.kind, on |-> modal.on, ver |-> 0]
  <2>1. q \in Task /\ OnClient(q)
    BY <1>10, <1>11 DEF SubmitModal, Task, Submission, OnClient, DialogOnClient, Modal
  <2>2. [modal EXCEPT !.busy = TRUE] \in Modal /\ DialogOnClient([modal EXCEPT !.busy = TRUE])
    BY DEF Modal, DialogOnClient
  <2>3. tasks' = [tasks EXCEPT ![t] = q] /\ crossed' \in BOOLEAN
    BY <1>11 DEF SubmitModal, SendChange
  <2> HIDE DEF q
  <2>4. QED
    BY <1>11, <2>1, <2>2, <2>3, QuietTypes DEF SubmitModal
<1>12. ASSUME NEW kind \in RowButtons, RowButton(t, kind) PROVE ConsoleTypes'
  <2> DEFINE q == [at |-> "submitted", kind |-> kind, on |-> None, ver |-> 0]
  <2>1. q \in Task /\ OnClient(q)
    BY <1>10 DEF Task, Submission, OnClient, RowButtons
  <2>2. tasks' = [tasks EXCEPT ![t] = q] /\ crossed' \in BOOLEAN
    BY <1>12 DEF RowButton, SendChange
  <2> HIDE DEF q
  <2>3. QED
    BY <1>12, <2>1, <2>2, QuietTypes DEF RowButton, Click, screen
<1>13. CASE ConsoleLogout(t)
  <2>1. [at |-> "logout"] \in Task /\ OnClient([at |-> "logout"])
    BY DEF Task, Entry, OnClient
  <2>2. QED
    BY <1>13, <2>1, QuietTypes DEF ConsoleLogout, Click, screen
<1>14. QED
  BY <1>2, <1>3, <1>5, <1>6, <1>7, <1>8, <1>9, <1>11, <1>12, <1>13 DEF Admin

\* Every change is about some list.
LEMMA ViewOfTyped ==
    ASSUME NEW kind
    PROVE  ViewOf(kind) \in Views
BY DEF ViewOf, Views

\* A submission.
LEMMA SubmittedTyped ==
    ASSUME ConsoleTypes, NEW t \in Tasks, tasks[t].at \in {"submitted", "changed"}
    PROVE  /\ tasks[t] \in Submission /\ OnClient(tasks[t])
           /\ tasks[t].at = "submitted" => t \in Pending
           /\ tasks[t].kind \in {"edit", "delete", "regen"} => tasks[t].on \in Clients
           /\ tasks[t].kind \in Dialogs \cup RowButtons /\ tasks[t].ver \in Versions
<1>1. tasks[t] \in Submission /\ OnClient(tasks[t])
  BY TypesNamed, TaskShapes
<1>2. QED
  BY <1>1 DEF Submission, OnClient, Pending

\* A submission for which the server has changed something, numbered ver.
LEMMA ChangedTyped ==
    ASSUME ConsoleTypes, NEW t \in Tasks, tasks[t].at = "submitted", NEW ver \in Versions, NEW q,
           \/ /\ q = [tasks[t] EXCEPT !.at = "changed", !.ver = ver]
              /\ tasks[t].kind # "create"
           \/ \E c \in Clients : q = [tasks[t] EXCEPT !.at = "changed", !.on = c, !.ver = ver]
    PROVE  q \in Task /\ OnClient(q) /\ q.at = "changed" /\ q.kind = tasks[t].kind /\ q.ver = ver
<1>1. tasks[t] \in Submission /\ OnClient(tasks[t])
  BY SubmittedTyped
<1>2. q \in Submission /\ q.at = "changed" /\ q.kind = tasks[t].kind /\ q.ver = ver
  BY <1>1 DEF Submission
<1>3. (q.on = tasks[t].on /\ tasks[t].kind # "create") \/ q.on \in Clients
  BY <1>1 DEF Submission
<1>4. QED
  BY <1>1, <1>2, <1>3 DEF Task, OnClient

\* What the server does keeps the types and the bound.
LEMMA ServerTypes ==
    ASSUME ConsoleTypes, NEW t \in Tasks, Server(t)
    PROVE  ConsoleTypes'
<1> USE TypesNamed
<1>1. CASE ServeLoad(t)
  <2> DEFINE q == [tasks[t] EXCEPT !.at = "answered", !.ver = version[tasks[t].view]]
  <2>1. tasks[t] \in ListLoad
    BY <1>1, TaskShapes DEF ServeLoad
  <2>2. version[tasks[t].view] \in Versions
    BY <2>1, Numbers DEF ListLoad
  <2>3. q \in ListLoad /\ q.at = "answered"
    BY <2>1, <2>2 DEF ListLoad
  <2>4. tasks' = [tasks EXCEPT ![t] = q] /\ UNCHANGED <<store, screen, history>>
    BY <1>1 DEF ServeLoad
  <2> HIDE DEF q
  <2>5. q \in Task /\ OnClient(q)
    BY <2>3, TaskShapes DEF Task
  <2>6. QED
    BY <2>3, <2>4, <2>5, QuietTypes DEF screen, history
<1>2. ASSUME NEW c \in Clients, CreateClient(t, c) PROVE ConsoleTypes'
  <2> DEFINE q == [tasks[t] EXCEPT !.at = "changed", !.on = c, !.ver = version["clients"] + 1]
  <2>1. tasks' = [tasks EXCEPT ![t] = q] /\ tasks[t].at = "submitted"
    BY <1>2 DEF CreateClient
  <2>2. t \in Pending /\ "clients" \in Views
    BY <2>1, SubmittedTyped DEF Views
  <2>3. q.at = "changed"
    BY <2>1, SubmittedTyped DEF Submission
  <2>4. Pending' = Pending \ {t}
    BY <2>1, <2>2, <2>3 DEF Pending, AdminTypeOK
  <2>5. /\ \A v \in Views : version'[v] \in {version[v], version[v] + 1}
        /\ \A d \in Clients : secret'[d] \in {secret[d], None, 1}
        /\ clicks' = clicks
    BY <1>2 DEF CreateClient, Touch, AdminTypeOK
  <2>6. /\ VersionsBounded' /\ version["clients"] + 1 \in Versions
        /\ \A v \in Views : version'[v] \in Versions
        /\ \A d \in Clients : secret'[d] \in Versions \cup {None}
    BY <2>2, <2>4, <2>5, ServedBound
  <2>7. /\ secret' \in [Clients -> Versions \cup {None}] /\ version' \in [Views -> Versions]
        /\ owed' \subseteq Clients
    BY <1>2, <2>6 DEF CreateClient, Touch, AdminTypeOK
  <2>8. q \in Task /\ OnClient(q)
    BY <2>1, <2>6, ChangedTyped
  <2> HIDE DEF q
  <2>9. QED
    BY <1>2, <2>1, <2>2, <2>3, <2>6, <2>7, <2>8, ServedTypes DEF CreateClient
<1>3. CASE RegenerateSecret(t)
  <2> DEFINE c == tasks[t].on
             q == [tasks[t] EXCEPT !.at = "changed", !.ver = secret[c] + 1]
  <2>1. tasks' = [tasks EXCEPT ![t] = q] /\ tasks[t].at = "submitted" /\ tasks[t].kind = "regen"
    BY <1>3 DEF RegenerateSecret
  <2>2. t \in Pending /\ c \in Clients
    BY <2>1, SubmittedTyped
  <2>3. q.at = "changed"
    BY <2>1, SubmittedTyped DEF Submission
  <2>4. Pending' = Pending \ {t}
    BY <2>1, <2>2, <2>3 DEF Pending, AdminTypeOK
  <2>5. /\ secret' = [secret EXCEPT ![c] = @ + 1] /\ secret[c] # None
        /\ version' = version /\ clicks' = clicks /\ owed' = owed \cup {c}
    BY <1>3 DEF RegenerateSecret, There
  <2>6. \A d \in Clients : \/ secret'[d] = secret[d]
                           \/ secret[d] # None /\ secret'[d] = secret[d] + 1
    BY <2>5 DEF AdminTypeOK
  <2>7. /\ VersionsBounded' /\ secret[c] + 1 \in Versions
        /\ \A d \in Clients : secret'[d] \in Versions \cup {None}
    BY <2>2, <2>4, <2>5, <2>6, ServedBound
  <2>8. /\ secret' \in [Clients -> Versions \cup {None}] /\ version' \in [Views -> Versions]
        /\ owed' \subseteq Clients
    BY <2>2, <2>5, <2>7 DEF AdminTypeOK
  <2>9. q \in Task /\ OnClient(q)
    BY <2>1, <2>7, ChangedTyped
  <2> HIDE DEF q
  <2>10. QED
    BY <1>3, <2>1, <2>2, <2>3, <2>7, <2>8, <2>9, ServedTypes DEF RegenerateSecret
<1>4. CASE DeleteClient(t)
  <2> DEFINE c == tasks[t].on
             q == [tasks[t] EXCEPT !.at = "changed", !.ver = version["clients"] + 1]
  <2>1. tasks' = [tasks EXCEPT ![t] = q] /\ tasks[t].at = "submitted" /\ tasks[t].kind = "delete"
    BY <1>4 DEF DeleteClient
  <2>2. t \in Pending /\ "clients" \in Views
    BY <2>1, SubmittedTyped DEF Views
  <2>3. q.at = "changed"
    BY <2>1, SubmittedTyped DEF Submission
  <2>4. Pending' = Pending \ {t}
    BY <2>1, <2>2, <2>3 DEF Pending, AdminTypeOK
  <2>5. /\ \A v \in Views : version'[v] \in {version[v], version[v] + 1}
        /\ \A d \in Clients : secret'[d] \in {secret[d], None, 1}
        /\ clicks' = clicks
    BY <1>4 DEF DeleteClient, Touch, AdminTypeOK
  <2>6. /\ VersionsBounded' /\ version["clients"] + 1 \in Versions
        /\ \A v \in Views : version'[v] \in Versions
        /\ \A d \in Clients : secret'[d] \in Versions \cup {None}
    BY <2>2, <2>4, <2>5, ServedBound
  <2>7. /\ secret' \in [Clients -> Versions \cup {None}] /\ version' \in [Views -> Versions]
        /\ owed' \subseteq Clients
    BY <1>4, <2>6 DEF DeleteClient, Touch, AdminTypeOK
  <2>8. q \in Task /\ OnClient(q)
    BY <2>1, <2>6, ChangedTyped
  <2> HIDE DEF q
  <2>9. QED
    BY <1>4, <2>1, <2>2, <2>3, <2>6, <2>7, <2>8, ServedTypes DEF DeleteClient
<1>5. CASE ChangeRow(t)
  <2> DEFINE v == ViewOf(tasks[t].kind)
             q == [tasks[t] EXCEPT !.at = "changed", !.ver = version[v] + 1]
  <2>1. /\ tasks' = [tasks EXCEPT ![t] = q] /\ tasks[t].at = "submitted"
        /\ tasks[t].kind # "create"
    BY <1>5 DEF ChangeRow
  <2>2. t \in Pending /\ v \in Views
    BY <2>1, SubmittedTyped, ViewOfTyped
  <2>3. q.at = "changed"
    BY <2>1, SubmittedTyped DEF Submission
  <2>4. Pending' = Pending \ {t}
    BY <2>1, <2>2, <2>3 DEF Pending, AdminTypeOK
  <2>5. /\ version' = [version EXCEPT ![v] = @ + 1] /\ secret' = secret
        /\ UNCHANGED <<screen, history>>
    BY <1>5 DEF ChangeRow, Touch
  <2>6. /\ \A w \in Views : version'[w] \in {version[w], version[w] + 1}
        /\ clicks' = clicks
    BY <2>5 DEF AdminTypeOK, history
  <2>7. /\ VersionsBounded' /\ version[v] + 1 \in Versions
        /\ \A w \in Views : version'[w] \in Versions
    BY <2>2, <2>4, <2>5, <2>6, ServedBound
  <2>8. /\ secret' \in [Clients -> Versions \cup {None}] /\ version' \in [Views -> Versions]
        /\ owed' \subseteq Clients
    BY <2>5, <2>7 DEF AdminTypeOK, history
  <2>9. q \in Task /\ OnClient(q)
    BY <2>1, <2>7, ChangedTyped
  <2> HIDE DEF q
  <2>10. QED
    BY <2>1, <2>2, <2>3, <2>5, <2>7, <2>8, <2>9, ServedTypes DEF history
<1>6. QED
  BY <1>1, <1>2, <1>3, <1>4, <1>5 DEF Server

\* The dialog after a change.
LEMMA AfterChangeTyped ==
    ASSUME ConsoleTypes, NEW t \in Tasks, tasks[t].at = "changed"
    PROVE  AfterChange(tasks[t]) \in Modal /\ DialogOnClient(AfterChange(tasks[t]))
<1> DEFINE q == tasks[t]
<1>1. q \in Submission /\ OnClient(q)
  BY SubmittedTyped
<1>2. 0 \in Versions /\ 1 \in Versions
  BY AdminBoundsAssumption DEF Versions
<1>3. modal \in Modal /\ DialogOnClient(modal)
  BY TypesNamed
<1>4. NoModal \in Modal /\ DialogOnClient(NoModal)
  BY <1>2 DEF NoModal, Modal, DialogOnClient
<1>5. CASE q.kind \in {"create", "regen"}
  <2>1. q.on \in Clients /\ q.ver \in Versions
    BY <1>1, <1>5 DEF OnClient, Submission
  <2>2. AfterChange(q) = [kind |-> "secret", on |-> q.on, busy |-> FALSE,
                          shown |-> IF q.kind = "create" THEN 1 ELSE q.ver]
    BY <1>5 DEF AfterChange
  <2>3. QED
    BY <1>2, <2>1, <2>2 DEF Modal, DialogOnClient
<1>6. CASE q.kind \notin {"create", "regen"}
  BY <1>3, <1>4, <1>6 DEF AfterChange
<1>7. QED
  BY <1>5, <1>6

\* What an answer does keeps the types.
LEMMA AnswerTypes ==
    ASSUME ConsoleTypes, NEW t \in Tasks, Answer(t)
    PROVE  ConsoleTypes'
<1> USE TypesNamed
<1>1. NoTask \in Task /\ OnClient(NoTask) /\ NoTask.at # "submitted"
  BY DEF Task, NoTask, OnClient
<1>2. [console EXCEPT !.open = FALSE] \in Console
  BY DEF Console
<1>3. /\ [modal EXCEPT !.busy = FALSE] \in Modal
      /\ DialogOnClient([modal EXCEPT !.busy = FALSE])
  BY DEF Modal, DialogOnClient
<1>4. CASE MeArrives(t)
  <2>1. /\ [console EXCEPT !.open = TRUE, !.nav = "clients"] \in Console
        /\ [view |-> "clients", client |-> None, table |-> FALSE] \in Drawn
        /\ "clients" \in Views
    BY DEF Console, Drawn, Views
  <2>2. QED
    BY <1>4, <2>1, PagesTyped, StartLoadTypes DEF MeArrives
<1>5. CASE MeRefused(t)
  BY <1>1, <1>5, QuietTypes DEF MeRefused, EndTask, screen, history
<1>6. CASE LoadArrives(t)
  <2> DEFINE q == tasks[t]
  <2>1. q \in ListLoad
    BY <1>6, TaskShapes DEF LoadArrives
  <2>2. /\ q.view \in Views /\ q.query \in Queries /\ q.page \in PageNumber
        /\ q.ver \in Versions
    BY <2>1 DEF ListLoad
  <2>3. list' \in [Views -> List] /\ loading' \in Flags /\ stale' \in Flags
    BY <1>6, <2>2 DEF LoadArrives, List, Flags
  <2>4. dom' \in Drawn
    BY <1>6, <2>3, RenderedTyped DEF LoadArrives
  <2>5. QED
    BY <1>1, <1>6, <2>3, <2>4, QuietTypes DEF LoadArrives, EndTask
<1>7. CASE LoadFails(t)
  <2>1. tasks[t].view \in Views
    BY <1>7, TaskShapes DEF LoadFails, ListLoad
  <2>2. loading' \in Flags /\ stale' \in Flags
    BY <1>7, <2>1 DEF LoadFails, Flags
  <2>3. list' \in [Views -> List]
    BY <1>7, <2>1 DEF LoadFails, List
  <2>4. dom' \in Drawn
    BY <1>7, <2>2, RenderedTyped DEF LoadFails
  <2>5. QED
    BY <1>1, <1>7, <2>2, <2>3, <2>4, QuietTypes DEF LoadFails, EndTask
<1>8. CASE Gone(t)
  <2>1. /\ console' = [console EXCEPT !.open = FALSE] /\ tasks' = [tasks EXCEPT ![t] = NoTask]
        /\ UNCHANGED <<store, list, dom, raced, own, owed, crossed, clicks>>
    BY <1>8 DEF Gone, EndTask
  <2>2. CASE tasks[t].at = "sent"
    <3>1. tasks[t].view \in Views
      BY <2>2, TaskShapes DEF ListLoad
    <3>2. loading' \in Flags /\ stale' \in Flags /\ modal' = modal
      BY <1>8, <2>2, <3>1 DEF Gone, Flags
    <3>3. QED
      BY <1>1, <1>2, <2>1, <3>2, QuietTypes
  <2>3. CASE tasks[t].at # "sent"
    <3>1. modal' \in Modal /\ DialogOnClient(modal') /\ loading' = loading /\ stale' = stale
      BY <1>3, <1>8, <2>3 DEF Gone, Released
    <3>2. QED
      BY <1>1, <1>2, <2>1, <3>1, QuietTypes
  <2>4. QED
    BY <2>2, <2>3
<1>9. CASE SecretArrives(t)
  BY <1>1, <1>9, AfterChangeTyped, QuietTypes DEF SecretArrives, EndTask, history
<1>10. CASE ChangeAnswered(t)
  <2> DEFINE v == ViewOf(tasks[t].kind)
  <2>1. modal' \in Modal /\ DialogOnClient(modal') /\ v \in Views
    BY <1>10, AfterChangeTyped, ViewOfTyped DEF ChangeAnswered
  <2>2. own' \in [Views -> Versions]
    BY <1>10, <2>1, SubmittedTyped DEF ChangeAnswered
  <2>3. PICK p \in PagesAfter(tasks[t].kind) : StartLoad(t, v, p, console, dom)
    BY <1>10 DEF ChangeAnswered
  <2>4. p \in PageNumber
    BY <2>1, <2>3, PagesTyped DEF PagesAfter
  <2>5. QED
    BY <1>10, <2>1, <2>2, <2>3, <2>4, StartLoadTypes DEF ChangeAnswered
<1>11. CASE ChangeFails(t)
  <2>1. modal' \in Modal /\ DialogOnClient(modal')
    BY <1>3, <1>11 DEF ChangeFails, Released
  <2>2. QED
    BY <1>1, <1>11, <2>1, QuietTypes DEF ChangeFails, EndTask
<1>12. CASE LogoutEnds(t)
  BY <1>1, <1>2, <1>12, QuietTypes DEF LogoutEnds, EndTask, history
<1>13. QED
  BY <1>4, <1>5, <1>6, <1>7, <1>8, <1>9, <1>10, <1>11, <1>12 DEF Answer

\* And the steps of no handler.
LEMMA OtherTypes ==
    ASSUME ConsoleTypes,
           \/ \E kind \in Dialogs, c \in Clients \cup {None} : OpenModal(kind, c)
           \/ CloseModal
           \/ LeaveConsole
           \/ \E v \in Views : OtherAdmin(v)
           \/ UNCHANGED consoleVars
    PROVE  ConsoleTypes'
<1> USE TypesNamed
<1>1. 0 \in Versions
  BY AdminBoundsAssumption DEF Versions
<1>2. ASSUME UNCHANGED <<store, tasks, raced, own, stale, crossed, list, loading, dom>>,
             console' \in Console, modal' \in Modal, DialogOnClient(modal'),
             owed' \subseteq Clients,
             clicks' = clicks \/ (clicks < MaxClicks /\ clicks' = clicks + 1)
      PROVE  ConsoleTypes'
  <2>1. clicks' \in Nat /\ clicks' >= clicks /\ clicks' \in 0 .. MaxClicks
    BY <1>2, ClicksTyped
  <2>2. Pending' = Pending
    BY <1>2 DEF Pending
  <2>3. VersionsBounded'
    BY <1>2, <2>1, <2>2, QuietBound
  <2>4. AdminTypeOK'
    BY <1>2, <2>1 DEF AdminTypeOK, store, Console
  <2>5. QED
    BY <1>2, <2>3, <2>4 DEF ConsoleTypes
<1>3. ASSUME NEW kind \in Dialogs, NEW c \in Clients \cup {None}, OpenModal(kind, c)
      PROVE  ConsoleTypes'
  <2>1. modal' = [kind |-> kind, on |-> c, busy |-> FALSE, shown |-> 0]
    BY <1>3 DEF OpenModal
  <2>2. kind \in {"edit", "delete", "regen", "secret"} => c \in Clients
    BY <1>3 DEF OpenModal, Dialogs
  <2>3. modal' \in Modal /\ DialogOnClient(modal')
    BY <1>1, <2>1, <2>2 DEF Modal, DialogOnClient
  <2>4. QED
    BY <1>2, <1>3, <2>3 DEF OpenModal, history
<1>4. CASE CloseModal
  <2>1. modal' \in Modal /\ DialogOnClient(modal') /\ owed' \subseteq Clients
    BY <1>1, <1>4 DEF CloseModal, NoModal, Modal, DialogOnClient
  <2>2. QED
    BY <1>2, <1>4, <2>1 DEF CloseModal
<1>5. CASE LeaveConsole
  BY <1>2, <1>5 DEF LeaveConsole, Console
<1>6. ASSUME NEW v \in Views, OtherAdmin(v) PROVE ConsoleTypes'
  <2>1. /\ version' = [version EXCEPT ![v] = @ + 1] /\ clicks < MaxClicks /\ clicks' = clicks + 1
        /\ UNCHANGED <<secret, screen, tasks, raced, stale, own, owed, crossed>>
    BY <1>6 DEF OtherAdmin, Touch
  <2>2. /\ clicks \in Nat /\ clicks <= MaxClicks /\ MaxClicks \in Nat
        /\ IsFiniteSet(Pending) /\ Cardinality(Pending) \in Nat
        /\ \A w \in Views : version[w] \in Nat /\ version[w] \in Versions
        /\ \A c \in Clients : secret[c] # None => secret[c] \in Nat
    BY Numbers
  <2>3. Pending' = Pending
    BY <2>1 DEF Pending
  <2>4. /\ \A w \in Views : version[w] + Cardinality(Pending) <= clicks
        /\ \A c \in Clients : secret[c] # None => secret[c] + Cardinality(Pending) <= clicks + 1
    BY DEF ConsoleTypes, VersionsBounded
  <2>5. version[v] + 1 \in Versions /\ clicks' \in 0 .. MaxClicks
    BY <2>1, <2>2, <2>4 DEF Versions
  <2>6. \A w \in Views : version'[w] + Cardinality(Pending') <= clicks'
    BY <2>1, <2>2, <2>3, <2>4 DEF AdminTypeOK
  <2>7. \A c \in Clients : secret'[c] # None => secret'[c] + Cardinality(Pending') <= clicks' + 1
    BY <2>1, <2>2, <2>3, <2>4
  <2>8. VersionsBounded'
    BY <2>2, <2>3, <2>6, <2>7 DEF VersionsBounded
  <2>9. AdminTypeOK'
    BY <2>1, <2>5 DEF AdminTypeOK, screen
  <2>10. QED
    BY <2>1, <2>8, <2>9 DEF ConsoleTypes, screen
<1>7. CASE UNCHANGED consoleVars
  BY <1>2, <1>7 DEF consoleVars, screen, history
<1>8. QED
  BY <1>3, <1>4, <1>5, <1>6, <1>7

\* The types hold in every state.
LEMMA ConsoleTyped == ConsoleSpec => []ConsoleTypes
<1>1. ConsoleInit => ConsoleTypes
  <2> SUFFICES ASSUME ConsoleInit PROVE ConsoleTypes
    OBVIOUS
  <2>1. MaxClicks \in Nat /\ MaxPage \in Nat \ {0} /\ 0 \in Versions /\ 1 \in Versions
    BY AdminBoundsAssumption DEF Versions
  <2>2. AdminTypeOK
    <3>1. /\ secret \in [Clients -> Versions \cup {None}] /\ version \in [Views -> Versions]
          /\ own \in [Views -> Versions]
      BY <2>1 DEF ConsoleInit
    <3>2. list \in [Views -> List]
      BY <2>1 DEF ConsoleInit, List, PageNumber
    <3>3. /\ console \in Console /\ dom \in Drawn /\ loading \in Flags /\ raced \in Flags
          /\ stale \in Flags
      BY DEF ConsoleInit, Console, Drawn, Flags, Views
    <3>4. modal \in Modal /\ tasks \in [Tasks -> Task] /\ clicks \in 0 .. MaxClicks
      BY <2>1 DEF ConsoleInit, NoModal, Modal, Task
    <3>5. QED
      BY <3>1, <3>2, <3>3, <3>4 DEF ConsoleInit, AdminTypeOK, Console, Drawn, Flags, Task
  <2>3. Pending = {}
    BY DEF ConsoleInit, Pending, NoTask
  <2>4. VersionsBounded
    BY <2>3, FS_EmptySet DEF ConsoleInit, VersionsBounded
  <2>5. QED
    BY <2>2, <2>4 DEF ConsoleInit, ConsoleTypes, NoTask, OnClient, NoModal, DialogOnClient
<1>2. ConsoleTypes /\ [ConsoleNext]_consoleVars => ConsoleTypes'
  BY AdminTypes, ServerTypes, AnswerTypes, OtherTypes DEF ConsoleNext
<1>3. QED
  BY <1>1, <1>2, PTL DEF ConsoleSpec

-----------------------------------------------------------------------------
(* The lists.  A load that no other overlapped asks for what the filters     *)
(* say, and is answered with every change this console has made.             *)

Loading == {"sent", "answered"}

LoadsAreCurrent ==
    \A v \in Views : ~raced[v] =>
        \A t \in InFlight(v) :
            /\ v = console.view => tasks[t].query = Query(v, console)
            /\ tasks[t].at = "answered" => tasks[t].ver >= own[v]

ListsAreCurrent ==
    \A v \in Views : ~loading[v] /\ ~raced[v] /\ ~stale[v] =>
        /\ v = console.view => list[v].query \in {None, Query(v, console)}
        /\ list[v].ver >= own[v]

ChangesAreKnown ==
    /\ \A v \in Views : own[v] <= version[v]
    /\ \A t \in Tasks : tasks[t].at = "changed" /\ tasks[t].kind # "regen" =>
           tasks[t].ver <= version[ViewOf(tasks[t].kind)]

ListInv == LoadsAreCurrent /\ ListsAreCurrent /\ ChangesAreKnown

\* Versions are numbers.
LEMMA ListNumbers ==
    ASSUME ConsoleTypes
    PROVE  /\ Versions \subseteq Nat
           /\ \A v \in Views : own[v] \in Nat /\ version[v] \in Nat /\ list[v].ver \in Nat
<1>1. Versions \subseteq Nat
  BY AdminBoundsAssumption DEF Versions
<1>2. \A v \in Views : own[v] \in Versions /\ version[v] \in Versions /\ list[v].ver \in Versions
  BY DEF ConsoleTypes, AdminTypeOK, List
<1>3. QED
  BY <1>1, <1>2

\* A load of v begins; the list it will replace no longer counts.
LEMMA StartLoadLists ==
    ASSUME ConsoleTypes, ListInv, NEW t \in Tasks, NEW v \in Views, NEW p, NEW c, NEW d,
           tasks[t].at \notin Loading, StartLoad(t, v, p, c, d),
           \/ c.view = v
           \/ c.view = console.view /\ Query(c.view, c) = Query(console.view, console),
           own'[v] <= version[v], \A w \in Views \ {v} : own'[w] = own[w],
           UNCHANGED <<version, list, stale>>
    PROVE  ListInv'
<1> DEFINE q == [at |-> "sent", view |-> v, query |-> Query(v, c), page |-> p, ver |-> 0]
<1>1. /\ tasks' = [tasks EXCEPT ![t] = q]
      /\ loading' = [loading EXCEPT ![v] = TRUE]
      /\ raced' = [raced EXCEPT ![v] = InFlight(v) \ {t} # {}]
      /\ console' = c
  BY DEF StartLoad, StartLoadOf
<1>2. tasks \in [Tasks -> Task] /\ loading \in Flags /\ raced \in Flags
  BY DEF ConsoleTypes, AdminTypeOK, Flags, Task
<1>3. q.at = "sent" /\ q.view = v /\ q.query = Query(v, c)
  OBVIOUS
<1>4. tasks'[t] = q /\ \A u \in Tasks \ {t} : tasks'[u] = tasks[u]
  BY <1>1, <1>2
<1>5. /\ loading'[v] /\ \A w \in Views \ {v} : loading'[w] = loading[w]
      /\ raced'[v] = (InFlight(v) \ {t} # {}) /\ \A w \in Views \ {v} : raced'[w] = raced[w]
  BY <1>1, <1>2 DEF Flags
<1> HIDE DEF q
<1>6. /\ \A w \in Views \ {v} : InFlight(w)' = InFlight(w) /\ t \notin InFlight(w)
      /\ InFlight(v)' = InFlight(v) \cup {t} /\ t \notin InFlight(v)
  BY <1>3, <1>4 DEF InFlight, Loading
<1>7. \A w \in Views \ {v} : w = c.view =>
          w = console.view /\ Query(w, c) = Query(w, console)
  OBVIOUS
<1>8. LoadsAreCurrent'
  <2> SUFFICES ASSUME NEW w \in Views, ~raced'[w], NEW u \in InFlight(w)'
               PROVE  /\ w = c.view => tasks'[u].query = Query(w, c)
                      /\ tasks'[u].at = "answered" => tasks'[u].ver >= own'[w]
    BY <1>1 DEF LoadsAreCurrent, Query
  <2>1. CASE w = v
    <3>1. u = t
      BY <1>5, <1>6, <2>1
    <3>2. QED
      BY <1>3, <1>4, <2>1, <3>1
  <2>2. CASE w # v
    <3>1. u \in InFlight(w) /\ ~raced[w] /\ tasks'[u] = tasks[u] /\ own'[w] = own[w]
      BY <1>4, <1>5, <1>6, <2>2 DEF InFlight
    <3>2. QED
      BY <1>7, <2>2, <3>1 DEF ListInv, LoadsAreCurrent
  <2>3. QED
    BY <2>1, <2>2
<1>9. ListsAreCurrent'
  <2> SUFFICES ASSUME NEW w \in Views, ~loading'[w], ~raced'[w], ~stale[w]
               PROVE  /\ w = c.view => list[w].query \in {None, Query(w, c)}
                      /\ list[w].ver >= own'[w]
    BY <1>1 DEF ListsAreCurrent, Query
  <2>1. w # v /\ ~loading[w] /\ ~raced[w] /\ own'[w] = own[w]
    BY <1>5
  <2>2. QED
    BY <1>7, <2>1 DEF ListInv, ListsAreCurrent
<1>10. ChangesAreKnown'
  <2>1. \A w \in Views : own'[w] <= version'[w]
    BY DEF ListInv, ChangesAreKnown
  <2>2. ASSUME NEW u \in Tasks, tasks'[u].at = "changed", tasks'[u].kind # "regen"
        PROVE  tasks'[u].ver <= version'[ViewOf(tasks'[u].kind)]
    <3>1. tasks'[u] = tasks[u]
      BY <1>3, <1>4, <2>2
    <3>2. QED
      BY <2>2, <3>1 DEF ListInv, ChangesAreKnown
  <2>3. QED
    BY <2>1, <2>2 DEF ChangesAreKnown, ViewOf
<1>11. QED
  BY <1>8, <1>9, <1>10 DEF ListInv

\* Steps that neither begin, answer nor end a load.
LEMMA QuietLists ==
    ASSUME ConsoleTypes, ConsoleTypes', ListInv,
           \A u \in Tasks : \/ tasks'[u] = tasks[u]
                           \/ /\ tasks[u].at \notin Loading /\ tasks'[u].at \notin Loading
                              /\ tasks'[u].at = "changed" /\ tasks'[u].kind # "regen" =>
                                     tasks'[u].ver <= version'[ViewOf(tasks'[u].kind)],
           \A v \in Views : version'[v] >= version[v],
           console'.view = console.view, console'.client = console.client,
           console'.want = console.want,
           UNCHANGED <<list, loading, raced, stale, own>>
    PROVE  ListInv'
<1>1. \A v \in Views : Query(v, console') = Query(v, console)
  BY DEF Query
<1>2. \A v \in Views : /\ InFlight(v)' = InFlight(v)
                      /\ \A u \in InFlight(v) : tasks'[u] = tasks[u]
  BY DEF InFlight, Loading
<1>3. LoadsAreCurrent'
  <2> SUFFICES ASSUME NEW w \in Views, ~raced[w], NEW u \in InFlight(w)
               PROVE  /\ w = console'.view => tasks'[u].query = Query(w, console')
                      /\ tasks'[u].at = "answered" => tasks'[u].ver >= own[w]
    BY <1>2 DEF LoadsAreCurrent, Query
  <2>1. QED
    BY <1>1, <1>2 DEF ListInv, LoadsAreCurrent
<1>4. ListsAreCurrent'
  <2> SUFFICES ASSUME NEW w \in Views, ~loading[w], ~raced[w], ~stale[w]
               PROVE  /\ w = console'.view => list[w].query \in {None, Query(w, console')}
                      /\ list[w].ver >= own[w]
    BY DEF ListsAreCurrent, Query
  <2>1. QED
    BY <1>1 DEF ListInv, ListsAreCurrent
<1>5. ChangesAreKnown'
  <2>1. \A w \in Views : own[w] \in Nat /\ version[w] \in Nat /\ version'[w] \in Nat
    BY ListNumbers, AdminBoundsAssumption DEF ConsoleTypes, AdminTypeOK, Versions
  <2>2. \A w \in Views : own'[w] <= version'[w]
    BY <2>1 DEF ListInv, ChangesAreKnown
  <2>3. ASSUME NEW u \in Tasks, tasks'[u].at = "changed", tasks'[u].kind # "regen"
        PROVE  tasks'[u].ver <= version'[ViewOf(tasks'[u].kind)]
    <3>1. CASE tasks'[u] = tasks[u]
      <4>1. tasks[u].ver \in Nat
        BY <2>3, <3>1, SubmittedTyped, ListNumbers
      <4>2. ViewOf(tasks[u].kind) \in Views
        BY ViewOfTyped
      <4>3. tasks[u].ver <= version[ViewOf(tasks[u].kind)]
        BY <2>3, <3>1 DEF ListInv, ChangesAreKnown
      <4>4. QED
        BY <2>1, <3>1, <4>1, <4>2, <4>3
    <3>2. QED
      BY <2>3, <3>1
  <2>4. QED
    BY <2>2, <2>3 DEF ChangesAreKnown, ViewOf
<1>6. QED
  BY <1>3, <1>4, <1>5 DEF ListInv

\* A load of v that ends, its list replaced or known to be stale.
LEMMA EndLoadLists ==
    ASSUME ConsoleTypes, ListInv, NEW t \in Tasks, tasks[t].at \in Loading,
           EndTask(t),
           LET v == tasks[t].view IN
           /\ \/ stale'[v]
              \/ /\ list'[v].query = tasks[t].query /\ list'[v].ver = tasks[t].ver
                 /\ tasks[t].at = "answered"
           /\ \A w \in Views \ {v} : /\ list'[w] = list[w] /\ stale'[w] = stale[w]
                                     /\ loading'[w] = loading[w],
           console'.view = console.view, console'.client = console.client,
           console'.want = console.want,
           UNCHANGED <<version, raced, own>>
    PROVE  ListInv'
<1> DEFINE v == tasks[t].view
<1>1. v \in Views
  BY TypesNamed, TaskShapes DEF Loading, ListLoad
<1>2. \A w \in Views : Query(w, console') = Query(w, console)
  BY DEF Query
<1>3. tasks' = [tasks EXCEPT ![t] = NoTask] /\ tasks \in [Tasks -> Task]
  BY DEF EndTask, ConsoleTypes, AdminTypeOK, Task
<1>4. \A u \in Tasks : tasks'[u] = tasks[u] \/ tasks'[u].at = "idle"
  BY <1>3 DEF NoTask
<1>5. \A w \in Views, u \in Tasks :
          u \in InFlight(w)' => u \in InFlight(w) /\ tasks'[u] = tasks[u]
  BY <1>4 DEF InFlight
<1>6. LoadsAreCurrent'
  <2> SUFFICES ASSUME NEW w \in Views, ~raced[w], NEW u \in InFlight(w)'
               PROVE  /\ w = console'.view => tasks'[u].query = Query(w, console')
                      /\ tasks'[u].at = "answered" => tasks'[u].ver >= own[w]
    BY DEF LoadsAreCurrent, Query
  <2>1. u \in InFlight(w) /\ tasks'[u] = tasks[u]
    BY <1>5 DEF InFlight
  <2>2. QED
    BY <1>2, <2>1 DEF ListInv, LoadsAreCurrent
<1>7. ListsAreCurrent'
  <2> SUFFICES ASSUME NEW w \in Views, ~loading'[w], ~raced[w], ~stale'[w]
               PROVE  /\ w = console'.view => list'[w].query \in {None, Query(w, console')}
                      /\ list'[w].ver >= own[w]
    BY DEF ListsAreCurrent, Query
  <2>1. CASE w = v
    <3>1. t \in InFlight(w)
      BY <2>1 DEF InFlight, Loading
    <3>2. /\ list'[w].query = tasks[t].query /\ list'[w].ver = tasks[t].ver
          /\ tasks[t].at = "answered"
      BY <2>1
    <3>3. QED
      BY <1>2, <3>1, <3>2 DEF ListInv, LoadsAreCurrent
  <2>2. CASE w # v
    <3>1. ~loading[w] /\ ~stale[w] /\ list'[w] = list[w]
      BY <2>2
    <3>2. QED
      BY <1>2, <3>1 DEF ListInv, ListsAreCurrent
  <2>3. QED
    BY <2>1, <2>2
<1>8. ChangesAreKnown'
  BY <1>4 DEF ListInv, ChangesAreKnown, ViewOf
<1>9. QED
  BY <1>6, <1>7, <1>8 DEF ListInv

\* What the administrator does: the list shown is loaded under its new filters.
LEMMA AdminLists ==
    ASSUME ConsoleTypes, ConsoleTypes', ListInv, NEW t \in Tasks, Admin(t)
    PROVE  ListInv'
<1> USE TypesNamed
<1>1. tasks[t] = NoTask /\ tasks[t].at = "idle"
  <2>1. tasks[t] = NoTask
    BY Zenon DEF Admin, Enter, Nav, Prev, NextPage, GoToPage, TurnTo, ViewLogs, LogsBack, Filter,
       SubmitModal, RowButton, ConsoleLogout, Click, SendChange
  <2>2. QED
    BY <2>1 DEF NoTask
<1>2. /\ tasks \in [Tasks -> Task] /\ tasks[t].at \notin Loading
      /\ \A v \in Views : own[v] <= version[v]
      /\ \A v \in Views : version[v] \in Nat
  BY <1>1, ListNumbers DEF ConsoleTypes, AdminTypeOK, Task, Loading, ListInv, ChangesAreKnown
<1>3. ASSUME NEW q, tasks' = [tasks EXCEPT ![t] = q], q.at \in {"me", "logout", "submitted"},
             UNCHANGED <<store, console, list, loading, raced, stale, own>>
      PROVE  ListInv'
  <2>1. \A u \in Tasks : tasks'[u] = tasks[u] \/ (u = t /\ tasks'[u] = q)
    BY <1>2, <1>3
  <2>2. \A v \in Views : version'[v] >= version[v]
    BY <1>2, <1>3 DEF store
  <2>3. QED
    BY <1>2, <1>3, <2>1, <2>2, QuietLists DEF Loading
<1>4. CASE Enter(t)
  BY <1>3, <1>4 DEF Enter, screen
<1>5. ASSUME NEW v \in Views, Nav(t, v) PROVE ListInv'
  <2> DEFINE c == [console EXCEPT !.view = v, !.nav = v, !.client = None]
  <2>1. c.view = v
    BY DEF Console
  <2>2. StartLoad(t, v, IF v = "clients" THEN list[v].page ELSE 1, c, dom) /\ UnchangedByLoad
    BY <1>5 DEF Nav
  <2> HIDE DEF c
  <2>3. QED
    BY <1>2, <2>1, <2>2, StartLoadLists DEF UnchangedByLoad, store
<1>6. ASSUME NEW v \in Views, NEW p \in PageNumber, TurnTo(t, v, p) PROVE ListInv'
  BY <1>2, <1>6, StartLoadLists DEF TurnTo, UnchangedByLoad, store
<1>7. ASSUME NEW v \in Views, Prev(t, v) \/ NextPage(t, v) PROVE ListInv'
  BY <1>6, <1>7, PagesTyped DEF Prev, NextPage
<1>8. ASSUME NEW v \in Views, NEW p \in PageNumber, GoToPage(t, v, p) PROVE ListInv'
  BY <1>6, <1>8 DEF GoToPage
<1>9. ASSUME NEW x \in Clients, ViewLogs(t, x) PROVE ListInv'
  <2> DEFINE c == [console EXCEPT !.view = "logs", !.nav = "logs", !.client = x]
  <2>1. c.view = "logs" /\ "logs" \in Views
    BY DEF Console, Views
  <2>2. StartLoad(t, "logs", 1, c, dom) /\ UnchangedByLoad
    BY <1>9 DEF ViewLogs
  <2> HIDE DEF c
  <2>3. QED
    BY <1>2, <2>1, <2>2, StartLoadLists DEF UnchangedByLoad, store
<1>10. CASE LogsBack(t)
  <2> DEFINE c == [console EXCEPT !.view = "clients", !.nav = "clients", !.client = None]
  <2>1. c.view = "clients" /\ "clients" \in Views
    BY DEF Console, Views
  <2>2. StartLoad(t, "clients", list["clients"].page, c, dom) /\ UnchangedByLoad
    BY <1>10 DEF LogsBack
  <2> HIDE DEF c
  <2>3. QED
    BY <1>2, <2>1, <2>2, StartLoadLists DEF UnchangedByLoad, store
<1>11. ASSUME NEW v \in Views, NEW f \in Filters \cup {All}, Filter(t, v, f) PROVE ListInv'
  <2> DEFINE c == [console EXCEPT !.want[v] = f]
  <2>1. /\ c.view = console.view /\ c.client = console.client
        /\ \A w \in Views \ {v} : c.want[w] = console.want[w]
    BY DEF Console
  <2>2. StartLoad(t, v, 1, c, dom) /\ UnchangedByLoad
    BY <1>11 DEF Filter
  <2>3. console.view \in Views
    BY DEF Console
  <2> HIDE DEF c
  <2>4. c.view = v \/ (c.view = console.view /\ Query(c.view, c) = Query(console.view, console))
    BY <2>1, <2>3 DEF Query
  <2>5. QED
    BY <1>2, <2>2, <2>4, StartLoadLists DEF UnchangedByLoad, store
<1>12. CASE SubmitModal(t)
  BY <1>3, <1>12 DEF SubmitModal, SendChange
<1>13. ASSUME NEW kind \in RowButtons, RowButton(t, kind) PROVE ListInv'
  BY <1>3, <1>13 DEF RowButton, SendChange, screen
<1>14. CASE ConsoleLogout(t)
  BY <1>3, <1>14 DEF ConsoleLogout, screen
<1>15. QED
  BY <1>4, <1>5, <1>7, <1>8, <1>9, <1>10, <1>11, <1>12, <1>13, <1>14 DEF Admin

\* What the server does: an answer has every change of before.
LEMMA ServerLists ==
    ASSUME ConsoleTypes, ConsoleTypes', ListInv, NEW t \in Tasks, Server(t)
    PROVE  ListInv'
<1> USE TypesNamed
<1>1. /\ tasks \in [Tasks -> Task] /\ version \in [Views -> Versions]
      /\ \A v \in Views : version[v] \in Nat /\ own[v] \in Nat
  BY ListNumbers DEF ConsoleTypes, AdminTypeOK, Task
<1>2. CASE ServeLoad(t)
  <2> DEFINE q == [tasks[t] EXCEPT !.at = "answered", !.ver = version[tasks[t].view]]
  <2>1. tasks[t] \in ListLoad /\ tasks[t].at = "sent"
    BY <1>2, TaskShapes DEF ServeLoad
  <2>2. /\ q.at = "answered" /\ q.view = tasks[t].view /\ q.query = tasks[t].query
        /\ q.ver = version[q.view] /\ q.view \in Views
    BY <2>1 DEF ListLoad
  <2>3. /\ tasks' = [tasks EXCEPT ![t] = q] /\ UNCHANGED <<store, screen, history>>
    BY <1>2 DEF ServeLoad
  <2> HIDE DEF q
  <2>4. tasks'[t] = q /\ \A u \in Tasks \ {t} : tasks'[u] = tasks[u]
    BY <1>1, <2>3
  <2>5. \A v \in Views : InFlight(v)' = InFlight(v)
    BY <2>1, <2>2, <2>4 DEF InFlight
  <2>6. LoadsAreCurrent'
    <3> SUFFICES ASSUME NEW w \in Views, ~raced[w], NEW u \in InFlight(w)
                 PROVE  /\ w = console.view => tasks'[u].query = Query(w, console)
                        /\ tasks'[u].at = "answered" => tasks'[u].ver >= own[w]
      BY <2>3, <2>5 DEF LoadsAreCurrent, Query, screen, history
    <3>1. w = console.view => tasks[u].query = Query(w, console)
      BY DEF ListInv, LoadsAreCurrent
    <3>2. CASE u = t
      <4>1. q.view = w
        BY <2>2, <3>2 DEF InFlight
      <4>2. q.ver >= own[w]
        BY <1>1, <2>2, <4>1 DEF ListInv, ChangesAreKnown
      <4>3. QED
        BY <2>2, <2>4, <3>1, <3>2, <4>2
    <3>3. CASE u # t
      BY <2>4, <3>1, <3>3 DEF ListInv, LoadsAreCurrent, InFlight
    <3>4. QED
      BY <3>2, <3>3
  <2>7. ListsAreCurrent'
    BY <2>3 DEF ListInv, ListsAreCurrent, Query, screen, history
  <2>8. ChangesAreKnown'
    BY <2>2, <2>3, <2>4 DEF ListInv, ChangesAreKnown, ViewOf, store, history
  <2>9. QED
    BY <2>6, <2>7, <2>8 DEF ListInv
<1>3. ASSUME NEW q, NEW v \in Views, tasks[t].at = "submitted", tasks' = [tasks EXCEPT ![t] = q],
             q.at = "changed",
             \/ version' = version /\ q.kind = "regen"
             \/ /\ version' = [version EXCEPT ![v] = @ + 1]
                /\ v = ViewOf(q.kind) /\ q.ver = version[v] + 1,
             UNCHANGED <<screen, raced, stale, own>>
      PROVE  ListInv'
  <2>1. \A u \in Tasks : tasks'[u] = tasks[u] \/ (u = t /\ tasks'[u] = q)
    BY <1>1, <1>3
  <2>2. \A w \in Views : version'[w] >= version[w]
    BY <1>1, <1>3
  <2>3. q.kind # "regen" => q.ver <= version'[ViewOf(q.kind)]
    BY <1>1, <1>3
  <2>4. QED
    BY <1>3, <2>1, <2>2, <2>3, QuietLists DEF Loading, screen
<1>4. ASSUME NEW c \in Clients, CreateClient(t, c) PROVE ListInv'
  <2> DEFINE q == [tasks[t] EXCEPT !.at = "changed", !.on = c, !.ver = version["clients"] + 1]
  <2>1. tasks[t].at = "submitted" /\ tasks[t].kind = "create" /\ tasks[t] \in Submission
    BY <1>4, SubmittedTyped DEF CreateClient
  <2>2. q.at = "changed" /\ q.kind = "create" /\ q.ver = version["clients"] + 1
    BY <2>1 DEF Submission
  <2>3. /\ tasks' = [tasks EXCEPT ![t] = q]
        /\ version' = [version EXCEPT !["clients"] = @ + 1]
        /\ UNCHANGED <<screen, raced, stale, own>>
    BY <1>4 DEF CreateClient, Touch
  <2> HIDE DEF q
  <2>4. "clients" \in Views /\ "clients" = ViewOf(q.kind)
    BY <2>2 DEF Views, ViewOf
  <2>5. QED
    BY <1>3, <2>1, <2>2, <2>3, <2>4
<1>5. CASE RegenerateSecret(t)
  <2> DEFINE q == [tasks[t] EXCEPT !.at = "changed", !.ver = secret[tasks[t].on] + 1]
  <2>1. tasks[t].at = "submitted" /\ tasks[t].kind = "regen" /\ tasks[t] \in Submission
    BY <1>5, SubmittedTyped DEF RegenerateSecret
  <2>2. q.at = "changed" /\ q.kind = "regen"
    BY <2>1 DEF Submission
  <2>3. /\ tasks' = [tasks EXCEPT ![t] = q] /\ version' = version
        /\ UNCHANGED <<screen, raced, stale, own>>
    BY <1>5 DEF RegenerateSecret
  <2> HIDE DEF q
  <2>4. "clients" \in Views
    BY DEF Views
  <2>5. QED
    BY <1>3, <2>1, <2>2, <2>3, <2>4
<1>6. CASE DeleteClient(t)
  <2> DEFINE q == [tasks[t] EXCEPT !.at = "changed", !.ver = version["clients"] + 1]
  <2>1. tasks[t].at = "submitted" /\ tasks[t].kind = "delete" /\ tasks[t] \in Submission
    BY <1>6, SubmittedTyped DEF DeleteClient
  <2>2. q.at = "changed" /\ q.kind = "delete" /\ q.ver = version["clients"] + 1
    BY <2>1 DEF Submission
  <2>3. /\ tasks' = [tasks EXCEPT ![t] = q]
        /\ version' = [version EXCEPT !["clients"] = @ + 1]
        /\ UNCHANGED <<screen, raced, stale, own>>
    BY <1>6 DEF DeleteClient, Touch
  <2> HIDE DEF q
  <2>4. "clients" \in Views /\ "clients" = ViewOf(q.kind)
    BY <2>2 DEF Views, ViewOf
  <2>5. QED
    BY <1>3, <2>1, <2>2, <2>3, <2>4
<1>7. CASE ChangeRow(t)
  <2> DEFINE v == ViewOf(tasks[t].kind)
             q == [tasks[t] EXCEPT !.at = "changed", !.ver = version[v] + 1]
  <2>1. tasks[t].at = "submitted" /\ tasks[t] \in Submission
    BY <1>7, SubmittedTyped DEF ChangeRow
  <2>2. q.at = "changed" /\ q.kind = tasks[t].kind /\ q.ver = version[v] + 1
    BY <2>1 DEF Submission
  <2>3. /\ tasks' = [tasks EXCEPT ![t] = q]
        /\ version' = [version EXCEPT ![v] = @ + 1]
        /\ UNCHANGED <<screen, raced, stale, own>>
    BY <1>7 DEF ChangeRow, Touch, history
  <2>4. v \in Views /\ v = ViewOf(q.kind)
    BY <2>2, ViewOfTyped
  <2> HIDE DEF q, v
  <2>5. QED
    BY <1>3, <2>1, <2>2, <2>3, <2>4
<1>8. QED
  BY <1>2, <1>4, <1>5, <1>6, <1>7 DEF Server

\* What an answer does: it replaces the list, or leaves it stale, or loads it.
LEMMA AnswerLists ==
    ASSUME ConsoleTypes, ConsoleTypes', ListInv, NEW t \in Tasks, Answer(t)
    PROVE  ListInv'
<1> USE TypesNamed
<1>1. /\ tasks \in [Tasks -> Task] /\ loading \in Flags /\ stale \in Flags
      /\ list \in [Views -> List]
      /\ \A v \in Views : own[v] <= version[v] /\ version[v] \in Nat
  BY ListNumbers DEF ConsoleTypes, AdminTypeOK, Task, ListInv, ChangesAreKnown
<1>2. ASSUME EndTask(t), tasks[t].at \notin Loading,
             console'.view = console.view, console'.client = console.client,
             console'.want = console.want,
             UNCHANGED <<store, list, loading, raced, stale, own>>
      PROVE  ListInv'
  <2>1. \A u \in Tasks : tasks'[u] = tasks[u] \/ (u = t /\ tasks'[u].at = "idle")
    BY <1>1, <1>2 DEF EndTask, NoTask
  <2>2. \A w \in Views : version'[w] >= version[w]
    BY <1>1, <1>2 DEF store
  <2>3. QED
    BY <1>2, <2>1, <2>2, QuietLists DEF Loading
<1>3. /\ [console EXCEPT !.open = FALSE].view = console.view
      /\ [console EXCEPT !.open = FALSE].client = console.client
      /\ [console EXCEPT !.open = FALSE].want = console.want
  BY DEF Console
<1>4. CASE MeArrives(t)
  <2> DEFINE c == [console EXCEPT !.open = TRUE, !.nav = "clients"]
  <2>1. c.view = console.view /\ c.client = console.client /\ c.want = console.want
    BY DEF Console
  <2>2. /\ StartLoad(t, "clients", 1, c, [view |-> "clients", client |-> None, table |-> FALSE])
        /\ UNCHANGED <<store, list, modal, stale, own>> /\ "clients" \in Views
        /\ tasks[t].at \notin Loading
    BY <1>4 DEF MeArrives, Views, Loading
  <2> HIDE DEF c
  <2>3. Query(c.view, c) = Query(console.view, console)
    BY <2>1 DEF Query
  <2>4. QED
    BY <1>1, <2>1, <2>2, <2>3, StartLoadLists DEF store
<1>5. CASE MeRefused(t)
  BY <1>2, <1>5 DEF MeRefused, Loading, screen, history
<1>6. CASE LoadArrives(t)
  <2> DEFINE v == tasks[t].view
  <2>1. v \in Views /\ tasks[t].at = "answered"
    BY <1>6, TaskShapes DEF LoadArrives, ListLoad
  <2>2. /\ list'[v].query = tasks[t].query /\ list'[v].ver = tasks[t].ver
        /\ \A w \in Views \ {v} : list'[w] = list[w]
    BY <1>1, <1>6, <2>1 DEF LoadArrives
  <2>3. \A w \in Views \ {v} : loading'[w] = loading[w] /\ stale'[w] = stale[w]
    BY <1>1, <1>6, <2>1 DEF LoadArrives, Flags
  <2>4. EndTask(t) /\ console' = console /\ UNCHANGED <<version, raced, own>>
    BY <1>6 DEF LoadArrives, store
  <2>5. QED
    BY <2>1, <2>2, <2>3, <2>4, EndLoadLists DEF Loading
<1>7. CASE LoadFails(t)
  <2> DEFINE v == tasks[t].view
  <2>1. v \in Views /\ tasks[t].at \in Loading
    BY <1>7, TaskShapes DEF LoadFails, ListLoad, Loading
  <2>2. \A w \in Views \ {v} : list'[w] = list[w]
    BY <1>1, <1>7, <2>1 DEF LoadFails
  <2>3. stale'[v] /\ \A w \in Views \ {v} : loading'[w] = loading[w] /\ stale'[w] = stale[w]
    BY <1>1, <1>7, <2>1 DEF LoadFails, Flags
  <2>4. EndTask(t) /\ console' = console /\ UNCHANGED <<version, raced, own>>
    BY <1>7 DEF LoadFails, store
  <2>5. QED
    BY <2>1, <2>2, <2>3, <2>4, EndLoadLists
<1>8. CASE Gone(t)
  <2> DEFINE v == tasks[t].view
  <2>1. /\ console' = [console EXCEPT !.open = FALSE] /\ EndTask(t)
        /\ UNCHANGED <<store, list, raced, own>>
    BY <1>8 DEF Gone
  <2>2. CASE tasks[t].at = "sent"
    <3>1. v \in Views
      BY <2>2, TaskShapes DEF ListLoad
    <3>2. stale'[v] /\ \A w \in Views \ {v} : loading'[w] = loading[w] /\ stale'[w] = stale[w]
      BY <1>1, <1>8, <2>2, <3>1 DEF Gone, Flags
    <3>3. QED
      BY <1>3, <2>1, <2>2, <3>2, EndLoadLists DEF Loading, store
  <2>3. CASE tasks[t].at # "sent"
    BY <1>2, <1>3, <1>8, <2>1, <2>3 DEF Gone, Loading
  <2>4. QED
    BY <2>2, <2>3
<1>9. CASE SecretArrives(t)
  BY <1>2, <1>9 DEF SecretArrives, Loading, history
<1>10. CASE ChangeAnswered(t)
  <2> DEFINE v == ViewOf(tasks[t].kind)
  <2>1. v \in Views /\ tasks[t].at = "changed" /\ tasks[t].kind # "regen"
    BY <1>10, ViewOfTyped DEF ChangeAnswered
  <2>2. own'[v] = tasks[t].ver /\ \A w \in Views \ {v} : own'[w] = own[w]
    BY <1>10, <2>1 DEF ChangeAnswered
  <2>3. own'[v] <= version[v]
    BY <2>1, <2>2 DEF ListInv, ChangesAreKnown
  <2>4. PICK p \in PagesAfter(tasks[t].kind) : StartLoad(t, v, p, console, dom)
    BY <1>10 DEF ChangeAnswered
  <2>5. UNCHANGED <<version, list, stale>> /\ tasks[t].at \notin Loading
    BY <1>10 DEF ChangeAnswered, store, Loading
  <2> HIDE DEF v
  <2>6. QED
    BY <2>1, <2>2, <2>3, <2>4, <2>5, StartLoadLists
<1>11. CASE ChangeFails(t)
  BY <1>2, <1>11 DEF ChangeFails, Loading
<1>12. CASE LogoutEnds(t)
  BY <1>2, <1>3, <1>12 DEF LogoutEnds, Loading, history
<1>13. QED
  BY <1>4, <1>5, <1>6, <1>7, <1>8, <1>9, <1>10, <1>11, <1>12 DEF Answer

\* And the steps of no handler.
LEMMA OtherLists ==
    ASSUME ConsoleTypes, ConsoleTypes', ListInv,
           \/ \E kind \in Dialogs, c \in Clients \cup {None} : OpenModal(kind, c)
           \/ CloseModal
           \/ LeaveConsole
           \/ \E v \in Views : OtherAdmin(v)
           \/ UNCHANGED consoleVars
    PROVE  ListInv'
<1>1. /\ version \in [Views -> Versions] /\ \A v \in Views : version[v] \in Nat
      /\ console \in Console
  BY ListNumbers, TypesNamed DEF ConsoleTypes, AdminTypeOK
<1>2. UNCHANGED <<tasks, list, loading, raced, stale, own>>
  BY DEF OpenModal, CloseModal, LeaveConsole, OtherAdmin, consoleVars, screen, history
<1>3. /\ console'.view = console.view /\ console'.client = console.client
      /\ console'.want = console.want
  <2>1. console' = console \/ console' = [console EXCEPT !.open = FALSE]
    BY DEF OpenModal, CloseModal, LeaveConsole, OtherAdmin, consoleVars, screen
  <2>2. QED
    BY <1>1, <2>1 DEF Console
<1>4. \A v \in Views : version'[v] >= version[v]
  <2>1. version' = version \/ \E v \in Views : version' = [version EXCEPT ![v] = @ + 1]
    BY DEF OpenModal, CloseModal, LeaveConsole, OtherAdmin, consoleVars, store, Touch
  <2>2. QED
    BY <1>1, <2>1
<1>5. QED
  BY <1>2, <1>3, <1>4, QuietLists

-----------------------------------------------------------------------------
(* The secrets.  Until two changes overlap there is one at a time, a new      *)
(* secret is in its answer or in the dialog, and none begins while it is.     *)

\* The answer of t brings the secret of c.
Brings(t, c) ==
    /\ tasks[t].at = "changed" /\ tasks[t].on = c
    /\ \/ tasks[t].kind = "create" /\ secret[c] = 1
       \/ tasks[t].kind = "regen" /\ secret[c] = tasks[t].ver

Shows(c) == modal.kind = "secret" /\ modal.on = c /\ modal.shown = secret[c]

SecretInv ==
    crossed \/
        /\ \A t, u \in Submitting : t = u
        /\ modal.kind = "secret" => Submitting = {}
        /\ \A c \in owed : Shows(c) \/ \E t \in Tasks : Brings(t, c)

\* Steps that begin and end no change, make no secret and show none.
LEMMA QuietSecrets ==
    ASSUME SecretInv,
           \A u \in Tasks : \/ tasks'[u] = tasks[u]
                           \/ /\ tasks[u].at \notin {"submitted", "changed"}
                              /\ tasks'[u].at \notin {"submitted", "changed"},
           modal'.kind = modal.kind \/ (modal.kind # "secret" /\ modal'.kind # "secret"),
           modal'.kind = "secret" => modal'.on = modal.on /\ modal'.shown = modal.shown,
           crossed' = crossed, owed' = owed, secret' = secret
    PROVE  SecretInv'
<1>1. Submitting' = Submitting
  BY DEF Submitting
<1>2. \A c \in owed : Shows(c) => Shows(c)'
  BY DEF Shows
<1>3. \A c \in owed, t \in Tasks : Brings(t, c) => Brings(t, c)'
  BY DEF Brings
<1>4. QED
  BY <1>1, <1>2, <1>3 DEF SecretInv

\* A change begins: no dialog shows a secret, and no other change is under way.
LEMMA SendSecrets ==
    ASSUME ConsoleTypes, SecretInv, NEW t \in Tasks, NEW kind, NEW c,
           SendChange(t, kind, c), modal.kind # "secret", modal'.kind # "secret",
           UNCHANGED <<store, owed>>
    PROVE  SecretInv'
<1>1. CASE crossed \/ Submitting # {}
  BY <1>1 DEF SecretInv, SendChange
<1>2. CASE ~crossed /\ Submitting = {}
  <2>1. owed' = {}
    BY <1>2 DEF SecretInv, Shows, Brings, Submitting
  <2>2. \A u \in Tasks \ {t} : tasks'[u] = tasks[u]
    BY DEF SendChange, ConsoleTypes, AdminTypeOK
  <2>3. Submitting' \subseteq {t}
    BY <1>2, <2>2 DEF Submitting
  <2>4. QED
    BY <2>1, <2>3 DEF SecretInv
<1>3. QED
  BY <1>1, <1>2

\* A change that is served; the answer brings the secret it made, if it did.
LEMMA ServedSecrets ==
    ASSUME ConsoleTypes, SecretInv, NEW t \in Tasks, tasks[t].at = "submitted", NEW q,
           tasks' = [tasks EXCEPT ![t] = q], q.at = "changed",
           \A c \in owed' : c \in owed \/ Brings(t, c)',
           UNCHANGED <<modal, crossed>>
    PROVE  SecretInv'
<1> SUFFICES ASSUME ~crossed PROVE SecretInv'
  BY DEF SecretInv
<1>1. t \in Submitting /\ \A u \in Submitting : u = t
  BY DEF Submitting, SecretInv
<1>2. modal.kind # "secret"
  BY <1>1 DEF SecretInv
<1>3. owed = {}
  BY <1>1, <1>2 DEF SecretInv, Shows, Brings, Submitting
<1>4. tasks'[t] = q /\ \A u \in Tasks \ {t} : tasks'[u] = tasks[u]
  BY DEF ConsoleTypes, AdminTypeOK
<1>5. Submitting' = Submitting
  BY <1>4 DEF Submitting
<1>6. \A c \in owed' : \E u \in Tasks : Brings(u, c)'
  BY <1>3
<1>7. QED
  BY <1>1, <1>2, <1>5, <1>6 DEF SecretInv

\* The end of a change: the dialog shows the secret that its answer brings.
LEMMA EndSecrets ==
    ASSUME ConsoleTypes, SecretInv, NEW t \in Tasks, tasks[t].at \in {"submitted", "changed"},
           NEW q, tasks' = [tasks EXCEPT ![t] = q], q.at \notin {"submitted", "changed"},
           \A c \in owed : Brings(t, c) /\ ~crossed' => Shows(c)',
           UNCHANGED <<owed, secret>>, crossed => crossed'
    PROVE  SecretInv'
<1> SUFFICES ASSUME ~crossed, ~crossed' PROVE SecretInv'
  BY DEF SecretInv
<1>1. t \in Submitting /\ \A u \in Submitting : u = t
  BY DEF Submitting, SecretInv
<1>2. \A c \in owed : Brings(t, c)
  BY <1>1 DEF SecretInv, Shows, Brings, Submitting
<1>3. tasks'[t] = q /\ \A u \in Tasks \ {t} : tasks'[u] = tasks[u]
  BY DEF ConsoleTypes, AdminTypeOK
<1>4. Submitting' = {}
  BY <1>1, <1>3 DEF Submitting
<1>5. QED
  BY <1>2, <1>4 DEF SecretInv

\* What the administrator does begins changes and shows no secret.
LEMMA AdminSecrets ==
    ASSUME ConsoleTypes, SecretInv, NEW t \in Tasks, Admin(t)
    PROVE  SecretInv'
<1>1. tasks \in [Tasks -> Task]
  BY DEF ConsoleTypes, AdminTypeOK, Task
<1>2. ASSUME NEW q, tasks[t] = NoTask, tasks' = [tasks EXCEPT ![t] = q],
             q.at \in {"me", "logout", "sent"},
             UNCHANGED <<store, modal, owed, crossed>>
      PROVE  SecretInv'
  <2>1. \A u \in Tasks : tasks'[u] = tasks[u] \/ (u = t /\ tasks'[u] = q)
    BY <1>1, <1>2
  <2>2. NoTask.at \notin {"submitted", "changed"} /\ secret' = secret
    BY <1>2 DEF NoTask, store
  <2>3. QED
    BY <1>2, <2>1, <2>2, QuietSecrets
<1>3. ASSUME NEW v, NEW p, NEW c, StartLoad(t, v, p, c, dom), Click(t), UnchangedByLoad
      PROVE  SecretInv'
  <2> DEFINE q == [at |-> "sent", view |-> v, query |-> Query(v, c), page |-> p, ver |-> 0]
  <2>1. tasks' = [tasks EXCEPT ![t] = q] /\ q.at = "sent"
    BY <1>3 DEF StartLoad, StartLoadOf
  <2> HIDE DEF q
  <2>2. QED
    BY <1>2, <1>3, <2>1 DEF Click, UnchangedByLoad
<1>4. CASE Enter(t)
  BY <1>2, <1>4 DEF Enter, screen
<1>5. ASSUME NEW v \in Views, Nav(t, v) PROVE SecretInv'
  BY <1>3, <1>5 DEF Nav
<1>6. ASSUME NEW v \in Views, NEW p, TurnTo(t, v, p) PROVE SecretInv'
  BY <1>3, <1>6 DEF TurnTo
<1>7. ASSUME NEW v \in Views, Prev(t, v) \/ NextPage(t, v) PROVE SecretInv'
  BY <1>6, <1>7 DEF Prev, NextPage
<1>8. ASSUME NEW v \in Views, NEW p \in PageNumber, GoToPage(t, v, p) PROVE SecretInv'
  BY <1>6, <1>8 DEF GoToPage
<1>9. ASSUME NEW c \in Clients, ViewLogs(t, c) PROVE SecretInv'
  BY <1>3, <1>9 DEF ViewLogs
<1>10. CASE LogsBack(t)
  BY <1>3, <1>10 DEF LogsBack
<1>11. ASSUME NEW v \in Views, NEW f \in Filters \cup {All}, Filter(t, v, f) PROVE SecretInv'
  BY <1>3, <1>11 DEF Filter
<1>12. CASE SubmitModal(t)
  <2>1. modal.kind # "secret" /\ modal'.kind # "secret"
    BY <1>12, TypesNamed DEF SubmitModal, Dialogs, Modal
  <2>2. SendChange(t, modal.kind, modal.on) /\ UNCHANGED <<store, owed>>
    BY <1>12 DEF SubmitModal
  <2>3. QED
    BY <2>1, <2>2, SendSecrets
<1>13. ASSUME NEW kind \in RowButtons, RowButton(t, kind) PROVE SecretInv'
  <2>1. modal.kind # "secret" /\ modal' = modal
    BY <1>13 DEF RowButton, Click, screen
  <2>2. SendChange(t, kind, None) /\ UNCHANGED <<store, owed>>
    BY <1>13 DEF RowButton
  <2>3. QED
    BY <2>1, <2>2, SendSecrets
<1>14. CASE ConsoleLogout(t)
  BY <1>2, <1>14 DEF ConsoleLogout, Click, screen
<1>15. QED
  BY <1>4, <1>5, <1>7, <1>8, <1>9, <1>10, <1>11, <1>12, <1>13, <1>14 DEF Admin

\* What the server does makes secrets, one for each answer that brings one.
LEMMA ServerSecrets ==
    ASSUME ConsoleTypes, SecretInv, NEW t \in Tasks, Server(t)
    PROVE  SecretInv'
<1>1. tasks \in [Tasks -> Task] /\ secret \in [Clients -> Versions \cup {None}]
  BY DEF ConsoleTypes, AdminTypeOK, Task
<1>2. CASE ServeLoad(t)
  <2> DEFINE q == [tasks[t] EXCEPT !.at = "answered", !.ver = version[tasks[t].view]]
  <2>1. tasks[t] \in ListLoad /\ tasks[t].at = "sent"
    BY <1>1, <1>2, TaskShapes DEF ServeLoad
  <2>2. q.at = "answered" /\ tasks' = [tasks EXCEPT ![t] = q]
    BY <1>2, <2>1 DEF ServeLoad, ListLoad
  <2> HIDE DEF q
  <2>3. \A u \in Tasks : tasks'[u] = tasks[u] \/ (u = t /\ tasks'[u] = q)
    BY <1>1, <2>2
  <2>4. UNCHANGED <<secret, modal, owed, crossed>>
    BY <1>2 DEF ServeLoad, store, screen, history
  <2>5. QED
    BY <2>1, <2>2, <2>3, <2>4, QuietSecrets
<1>3. ASSUME NEW c \in Clients, CreateClient(t, c) PROVE SecretInv'
  <2> DEFINE q == [tasks[t] EXCEPT !.at = "changed", !.on = c, !.ver = version["clients"] + 1]
  <2>1. tasks[t].at = "submitted" /\ tasks[t].kind = "create" /\ tasks[t] \in Submission
    BY <1>3, SubmittedTyped DEF CreateClient
  <2>2. q.at = "changed" /\ q.on = c /\ q.kind = "create"
    BY <2>1 DEF Submission
  <2>3. /\ tasks' = [tasks EXCEPT ![t] = q] /\ secret' = [secret EXCEPT ![c] = 1]
        /\ owed' = owed \cup {c} /\ UNCHANGED <<modal, crossed>>
    BY <1>3 DEF CreateClient, screen
  <2> HIDE DEF q
  <2>4. Brings(t, c)'
    BY <1>1, <2>2, <2>3 DEF Brings
  <2>5. \A d \in owed' : d \in owed \/ Brings(t, d)'
    BY <2>3, <2>4
  <2>6. QED
    BY <2>1, <2>2, <2>3, <2>5, ServedSecrets
<1>4. CASE RegenerateSecret(t)
  <2> DEFINE c == tasks[t].on
             q == [tasks[t] EXCEPT !.at = "changed", !.ver = secret[c] + 1]
  <2>1. /\ tasks[t].at = "submitted" /\ tasks[t].kind = "regen" /\ tasks[t] \in Submission
        /\ c \in Clients
    BY <1>4, SubmittedTyped DEF RegenerateSecret
  <2>2. q.at = "changed" /\ q.on = c /\ q.kind = "regen" /\ q.ver = secret[c] + 1
    BY <2>1 DEF Submission
  <2>3. /\ tasks' = [tasks EXCEPT ![t] = q] /\ secret' = [secret EXCEPT ![c] = @ + 1]
        /\ owed' = owed \cup {c} /\ UNCHANGED <<modal, crossed>>
    BY <1>4 DEF RegenerateSecret, screen
  <2>4. PICK d \in Clients : d = c
    BY <2>1
  <2> HIDE DEF q
  <2>5. tasks'[t] = q /\ secret'[d] = secret[d] + 1
    BY <1>1, <2>3, <2>4
  <2>6. Brings(t, d)'
    BY <2>2, <2>4, <2>5 DEF Brings
  <2>7. \A e \in owed' : e \in owed \/ Brings(t, e)'
    BY <2>3, <2>4, <2>6
  <2>8. QED
    BY <2>1, <2>2, <2>3, <2>7, ServedSecrets
<1>5. ASSUME NEW q, tasks[t].at = "submitted", q.at = "changed", tasks' = [tasks EXCEPT ![t] = q],
             owed' \subseteq owed, UNCHANGED <<modal, crossed>>
      PROVE  SecretInv'
  BY <1>5, ServedSecrets
<1>6. CASE DeleteClient(t)
  <2> DEFINE q == [tasks[t] EXCEPT !.at = "changed", !.ver = version["clients"] + 1]
  <2>1. tasks[t].at = "submitted" /\ tasks[t] \in Submission
    BY <1>6, SubmittedTyped DEF DeleteClient
  <2>2. q.at = "changed" /\ tasks' = [tasks EXCEPT ![t] = q]
    BY <1>6, <2>1 DEF DeleteClient, Submission
  <2> HIDE DEF q
  <2>3. owed' \subseteq owed /\ UNCHANGED <<modal, crossed>>
    BY <1>6 DEF DeleteClient, screen
  <2>4. QED
    BY <1>5, <2>1, <2>2, <2>3
<1>7. CASE ChangeRow(t)
  <2> DEFINE q == [tasks[t] EXCEPT !.at = "changed",
                                   !.ver = version[ViewOf(tasks[t].kind)] + 1]
  <2>1. tasks[t].at = "submitted" /\ tasks[t] \in Submission
    BY <1>7, SubmittedTyped DEF ChangeRow
  <2>2. q.at = "changed" /\ tasks' = [tasks EXCEPT ![t] = q]
    BY <1>7, <2>1 DEF ChangeRow, Submission
  <2> HIDE DEF q
  <2>3. owed' \subseteq owed /\ UNCHANGED <<modal, crossed>>
    BY <1>7 DEF ChangeRow, screen, history
  <2>4. QED
    BY <1>5, <2>1, <2>2, <2>3
<1>8. QED
  BY <1>2, <1>3, <1>4, <1>6, <1>7 DEF Server

\* What an answer does: it shows the secret it brings.
LEMMA AnswerSecrets ==
    ASSUME ConsoleTypes, SecretInv, NEW t \in Tasks, Answer(t)
    PROVE  SecretInv'
<1>1. tasks \in [Tasks -> Task] /\ NoTask.at = "idle" /\ modal \in Modal
  BY DEF ConsoleTypes, AdminTypeOK, Task, NoTask
<1>2. ASSUME NEW q, tasks[t].at \notin {"submitted", "changed"},
             tasks' = [tasks EXCEPT ![t] = q], q.at \in {"idle", "sent"},
             UNCHANGED <<store, modal, owed, crossed>>
      PROVE  SecretInv'
  <2>1. \A u \in Tasks : tasks'[u] = tasks[u] \/ (u = t /\ tasks'[u] = q)
    BY <1>1, <1>2
  <2>2. QED
    BY <1>2, <2>1, QuietSecrets DEF store
<1>3. CASE MeArrives(t)
  <2> DEFINE c == [console EXCEPT !.open = TRUE, !.nav = "clients"]
             q == [at |-> "sent", view |-> "clients", query |-> Query("clients", c),
                   page |-> 1, ver |-> 0]
  <2>1. tasks' = [tasks EXCEPT ![t] = q] /\ q.at = "sent"
    BY <1>3 DEF MeArrives, StartLoad, StartLoadOf
  <2> HIDE DEF q
  <2>2. QED
    BY <1>2, <1>3, <2>1 DEF MeArrives
<1>4. CASE MeRefused(t)
  BY <1>1, <1>2, <1>4 DEF MeRefused, EndTask, screen, history
<1>5. CASE LoadArrives(t)
  BY <1>1, <1>2, <1>5 DEF LoadArrives, EndTask
<1>6. CASE LoadFails(t)
  BY <1>1, <1>2, <1>6 DEF LoadFails, EndTask
<1>7. CASE LogoutEnds(t)
  BY <1>1, <1>2, <1>7 DEF LogoutEnds, EndTask, history
<1>8. CASE Gone(t)
  <2>1. CASE tasks[t].at = "sent"
    BY <1>1, <1>2, <1>8, <2>1 DEF Gone, EndTask
  <2>2. CASE tasks[t].at = "submitted"
    BY <1>1, <1>8, <2>2, EndSecrets DEF Gone, EndTask, Brings, store
  <2>3. QED
    BY <1>8, <2>1, <2>2 DEF Gone
<1>9. ASSUME tasks[t].at = "changed", modal' = AfterChange(tasks[t])
      PROVE  \A c \in owed : Brings(t, c) /\ secret' = secret => Shows(c)'
  <2> SUFFICES ASSUME NEW c \in owed, Brings(t, c), secret' = secret PROVE Shows(c)'
    OBVIOUS
  <2>1. tasks[t].kind \in {"create", "regen"} /\ tasks[t].on = c
    BY DEF Brings
  <2>2. modal' = [kind |-> "secret", on |-> c, busy |-> FALSE,
                  shown |-> IF tasks[t].kind = "create" THEN 1 ELSE tasks[t].ver]
    BY <1>9, <2>1 DEF AfterChange
  <2>3. modal'.kind = "secret" /\ modal'.on = c /\ modal'.shown = secret[c]
    BY <2>2 DEF Brings
  <2>4. QED
    BY <2>3 DEF Shows
<1>10. CASE SecretArrives(t)
  <2>1. /\ tasks[t].at = "changed" /\ modal' = AfterChange(tasks[t])
        /\ tasks' = [tasks EXCEPT ![t] = NoTask] /\ UNCHANGED <<owed, secret, crossed>>
    BY <1>10 DEF SecretArrives, EndTask, store, history
  <2>2. QED
    BY <1>1, <1>9, <2>1, EndSecrets
<1>11. CASE ChangeAnswered(t)
  <2> DEFINE v == ViewOf(tasks[t].kind)
  <2>1. PICK p \in PagesAfter(tasks[t].kind) : StartLoad(t, v, p, console, dom)
    BY <1>11 DEF ChangeAnswered
  <2> DEFINE q == [at |-> "sent", view |-> v, query |-> Query(v, console), page |-> p, ver |-> 0]
  <2>2. tasks' = [tasks EXCEPT ![t] = q] /\ q.at = "sent"
    BY <2>1 DEF StartLoad, StartLoadOf
  <2>3. /\ tasks[t].at = "changed" /\ modal' = AfterChange(tasks[t])
        /\ UNCHANGED <<owed, secret, crossed>>
    BY <1>11 DEF ChangeAnswered, store
  <2> HIDE DEF q
  <2>4. QED
    BY <1>9, <2>2, <2>3, EndSecrets
<1>12. CASE ChangeFails(t)
  <2>1. /\ tasks[t].at \in {"submitted", "changed"}
        /\ crossed' = (crossed \/ tasks[t].at = "changed")
        /\ tasks' = [tasks EXCEPT ![t] = NoTask] /\ UNCHANGED <<owed, secret>>
    BY <1>12 DEF ChangeFails, EndTask, store
  <2>2. \A c \in owed : Brings(t, c) => crossed'
    BY <2>1 DEF Brings
  <2>3. QED
    BY <1>1, <2>1, <2>2, EndSecrets
<1>13. QED
  BY <1>3, <1>4, <1>5, <1>6, <1>7, <1>8, <1>10, <1>11, <1>12 DEF Answer

\* And the steps of no handler: a secret shown is handed over as its dialog closes.
LEMMA OtherSecrets ==
    ASSUME ConsoleTypes, SecretInv,
           \/ \E kind \in Dialogs, c \in Clients \cup {None} : OpenModal(kind, c)
           \/ CloseModal
           \/ LeaveConsole
           \/ \E v \in Views : OtherAdmin(v)
           \/ UNCHANGED consoleVars
    PROVE  SecretInv'
<1>1. ASSUME NEW kind \in Dialogs, NEW c \in Clients \cup {None}, OpenModal(kind, c)
      PROVE  SecretInv'
  <2>1. modal.kind # "secret" /\ modal'.kind # "secret"
    BY <1>1 DEF OpenModal, Dialogs
  <2>2. UNCHANGED <<tasks, secret, owed, crossed>>
    BY <1>1 DEF OpenModal, store, history
  <2>3. QED
    BY <2>1, <2>2, QuietSecrets
<1>2. CASE CloseModal
  <2>1. modal'.kind = "none" /\ UNCHANGED <<tasks, secret, crossed>> /\ owed' \subseteq owed
    BY <1>2 DEF CloseModal, NoModal, store
  <2>2. \A c \in owed' : ~Shows(c)
    BY <1>2 DEF CloseModal, Shows
  <2>3. Submitting' = Submitting /\ \A c, t : Brings(t, c) => Brings(t, c)'
    BY <2>1 DEF Submitting, Brings
  <2>4. QED
    BY <2>1, <2>2, <2>3 DEF SecretInv
<1>3. CASE LeaveConsole \/ (\E v \in Views : OtherAdmin(v)) \/ UNCHANGED consoleVars
  <2>1. UNCHANGED <<tasks, secret, modal, owed, crossed>>
    BY <1>3 DEF LeaveConsole, OtherAdmin, consoleVars, store, screen, history
  <2>2. QED
    BY <2>1, QuietSecrets
<1>4. QED
  BY <1>1, <1>2, <1>3

-----------------------------------------------------------------------------
(* The theorems about the console.                                         *)

\* Every step keeps what is known of the lists and the secrets.
LEMMA ConsoleInvariant == ConsoleSpec => [](ConsoleTypes /\ ListInv /\ SecretInv)
<1>1. ConsoleInit => ListInv /\ SecretInv
  <2> SUFFICES ASSUME ConsoleInit PROVE ListInv /\ SecretInv
    OBVIOUS
  <2>1. Submitting = {} /\ \A v \in Views : InFlight(v) = {}
    BY DEF ConsoleInit, Submitting, InFlight, NoTask
  <2>2. ListInv
    BY <2>1 DEF ConsoleInit, ListInv, LoadsAreCurrent, ListsAreCurrent, ChangesAreKnown, NoTask
  <2>3. SecretInv
    BY <2>1 DEF ConsoleInit, SecretInv
  <2>4. QED
    BY <2>2, <2>3
<1>2. ConsoleTypes /\ ConsoleTypes' /\ ListInv /\ [ConsoleNext]_consoleVars => ListInv'
  BY AdminLists, ServerLists, AnswerLists, OtherLists DEF ConsoleNext
<1>3. ConsoleTypes /\ SecretInv /\ [ConsoleNext]_consoleVars => SecretInv'
  BY AdminSecrets, ServerSecrets, AnswerSecrets, OtherSecrets DEF ConsoleNext
<1>4. QED
  BY <1>1, <1>2, <1>3, ConsoleTyped, PTL DEF ConsoleSpec

\* Type correctness of the console; no version outruns the clicks that make them.
THEOREM ConsoleTypesCorrect == ConsoleSpec => []AdminTypeOK
<1>1. ConsoleTypes => AdminTypeOK
  BY DEF ConsoleTypes
<1>2. QED
  BY <1>1, ConsoleTyped, PTL

\* A list answers the filters above it unless two loads of it overlapped or the
\* last one failed, whatever the number of handlers and of administrators.
THEOREM ListsFollowFilters == ConsoleSpec => []ListsAnswerTheirFilters
<1>1. ConsoleTypes /\ ListInv => ListsAnswerTheirFilters
  BY DEF ConsoleTypes, AdminTypeOK, ListInv, ListsAreCurrent, ListsAnswerTheirFilters
<1>2. QED
  BY <1>1, ConsoleInvariant, PTL

\* A list that is loaded again after a change made here shows the change.
THEOREM OwnChangesAreShown == ConsoleSpec => []OwnChangesShow
<1>1. ListInv => OwnChangesShow
  BY DEF ListInv, ListsAreCurrent, OwnChangesShow
<1>2. QED
  BY <1>1, ConsoleInvariant, PTL

\* A secret made here is shown until the administrator closes it, unless two
\* changes overlapped or an answer was lost.
THEOREM SecretsAreHandedOver == ConsoleSpec => []SecretsReachTheAdmin
<1>1. SecretInv => SecretsReachTheAdmin
  BY DEF SecretInv, Shows, Brings, Submitting, SecretsReachTheAdmin
<1>2. QED
  BY <1>1, ConsoleInvariant, PTL

=============================================================================
