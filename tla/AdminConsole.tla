---------------------------- MODULE AdminConsole ----------------------------
(***************************************************************************)
(* The admin console of auth-ui in one tab: four lists that are loaded     *)
(* page by page under filters, the dialogs and row buttons that change     *)
(* clients and accounts, and every request in flight at once, since no     *)
(* handler of the console is disabled by another and none checks on an     *)
(* answer whether what it belongs to is still shown.                       *)
(*                                                                         *)
(* Source: pages/AdminPage of packages/auth-ui; routes/{client,user}.routes*)
(* and services/client.service of packages/auth-service for what the       *)
(* requests change.  A list is the query it answers and the version of     *)
(* what is listed; a client secret is its number; rows are not modelled.   *)
(***************************************************************************)
EXTENDS Naturals, FiniteSets

CONSTANTS
    Clients,     \* OAuth clients, registered or to be
    Registered,  \* those there are at first
    Filters,     \* a filter of the users', MFA and log lists, or a search
    Tasks,       \* slots of handlers awaiting an answer
    MaxPage,     \* bound: pages of a list that has more than one
    MaxClicks,   \* bound: what administrators do here and elsewhere, opening dialogs aside
    All, None

ASSUME AdminBoundsAssumption ==
    MaxPage \in Nat \ {0} /\ MaxClicks \in Nat
ASSUME AdminNamesAssumption ==
    {All, None} \cap (Clients \cup Filters) = {} /\ All # None
ASSUME AdminClientsAssumption == Registered \subseteq Clients /\ Clients \cap Filters = {}

VARIABLES
    secret,   \* the client's secret; 0: not registered yet, None: deleted
    version,  \* of the rows a list is about
    console,  \* open: the overlay is shown; view, nav, client, want: state of the module
    list,     \* what each list holds: rows' query and version, and the page numbers
    loading,  \* the list's loading flag
    dom,      \* what renderMain last drew: the view, for which client, with its table
    modal,    \* the dialog, on document.body
    tasks,
    \* history, read by the properties only
    raced,    \* loads of the list overlapped
    stale,    \* its last load failed
    own,      \* version this console's last acknowledged change made
    owed,     \* clients whose new secret this console has yet to hand over
    crossed,  \* two submissions overlapped, or an answer was lost
    clicks

store == <<secret, version>>
screen == <<console, list, loading, dom, modal>>
history == <<raced, stale, own, owed, crossed, clicks>>
consoleVars == <<store, screen, tasks, history>>

-----------------------------------------------------------------------------
(* Shapes.                                                                 *)

Views == {"clients", "logs", "users", "mfa"}
Queries == Filters \cup Clients \cup {All}
Versions == 0 .. MaxClicks + 1
PageNumber == 1 .. MaxPage
List == [query: Queries \cup {None}, page: PageNumber, total: {1, MaxPage}, ver: Versions]
Dialogs == {"create", "edit", "delete", "regen", "move", "reset"}
RowButtons == {"toggle", "require"}
Modal == [kind: Dialogs \cup {"none", "secret"}, on: Clients \cup {None}, busy: BOOLEAN,
          shown: Versions]
NoTask == [at |-> "idle"]
Entry == [at: {"me", "logout"}]
ListLoad == [at: {"sent", "answered"}, view: Views, query: Queries, page: PageNumber, ver: Versions]
Submission == [at: {"submitted", "changed"}, kind: Dialogs \cup RowButtons,
               on: Clients \cup {None}, ver: Versions]

AdminTypeOK ==
    /\ secret \in [Clients -> Versions \cup {None}] /\ version \in [Views -> Versions]
    /\ console \in [open: BOOLEAN, view: Views, nav: Views, client: Clients \cup {None},
                    want: [Views -> Filters \cup {All}]]
    /\ list \in [Views -> List]
    /\ loading \in [Views -> BOOLEAN]
    /\ dom \in [view: Views, client: Clients \cup {None}, table: BOOLEAN]
    /\ modal \in Modal
    /\ tasks \in [Tasks -> {NoTask} \cup Entry \cup ListLoad \cup Submission]
    /\ raced \in [Views -> BOOLEAN] /\ stale \in [Views -> BOOLEAN]
    /\ own \in [Views -> Versions] /\ owed \subseteq Clients /\ crossed \in BOOLEAN
    /\ clicks \in 0 .. MaxClicks

NoModal == [kind |-> "none", on |-> None, busy |-> FALSE, shown |-> 0]

ConsoleInit ==
    /\ secret = [c \in Clients |-> IF c \in Registered THEN 1 ELSE 0]
    /\ version = [v \in Views |-> 0]
    /\ console = [open |-> FALSE, view |-> "clients", nav |-> "clients", client |-> None,
                  want |-> [v \in Views |-> All]]
    /\ list = [v \in Views |-> [query |-> None, page |-> 1, total |-> 1, ver |-> 0]]
    /\ loading = [v \in Views |-> FALSE]
    /\ dom = [view |-> "clients", client |-> None, table |-> FALSE]
    /\ modal = NoModal
    /\ tasks = [t \in Tasks |-> NoTask]
    /\ raced = [v \in Views |-> FALSE] /\ stale = [v \in Views |-> FALSE]
    /\ own = [v \in Views |-> 0] /\ owed = {} /\ crossed = FALSE
    /\ clicks = 0

-----------------------------------------------------------------------------
(* Rendering and loading.                                                  *)

\* renderMain with the console c and the flags l; nothing without the overlay.
Rendered(c, l) ==
    IF c.open THEN [view |-> c.view, client |-> c.client, table |-> ~l[c.view]] ELSE dom

\* The query of a list: one client's log has no filter.
Query(v, c) == IF v = "logs" /\ c.client # None THEN c.client ELSE c.want[v]

InFlight(v) == {t \in Tasks : tasks[t].at \in {"sent", "answered"} /\ tasks[t].view = v}

\* loadClients, loadLogs, loadUsers, loadMfaUsers by a console c that shows d;
\* only the users' list is drawn at once.
StartLoadOf(t, v, q, p, c, d) ==
    /\ tasks' = [tasks EXCEPT ![t] = [at |-> "sent", view |-> v, query |-> q,
                                      page |-> p, ver |-> 0]]
    /\ loading' = [loading EXCEPT ![v] = TRUE]
    /\ dom' = IF v = "users" THEN Rendered(c, loading') ELSE d
    /\ raced' = [raced EXCEPT ![v] = InFlight(v) \ {t} # {}]
    /\ console' = c

StartLoad(t, v, p, c, d) == StartLoadOf(t, v, Query(v, c), p, c, d)

\* The metadata the pager's buttons were drawn with, which every arrival draws
\* again; the users' are the log's.
MetaOf(v) ==
    IF v = "clients" THEN list["clients"]
    ELSE IF v = "mfa" THEN list["mfa"] ELSE list["logs"]

-----------------------------------------------------------------------------
(* What the administrator does.  A dialog makes the rest of the page inert.*)

\* A view being loaded shows no table, hence no rows and no pager.
TableShown(v) == dom.view = v /\ dom.table

\* One client's log has a way back, and no filter.
ClientLogShown == dom.view = "logs" /\ dom.client # None

FilterShown(v) == dom.view = v /\ v # "clients" /\ ~ClientLogShown

\* A click that starts a handler in slot t.
Click(t) ==
    /\ console.open /\ modal.kind = "none"
    /\ tasks[t] = NoTask
    /\ clicks < MaxClicks /\ clicks' = clicks + 1

UnchangedByLoad == UNCHANGED <<store, list, modal, stale, own, owed, crossed>>

\* AdminPage up to its GET /auth/me.  The state is the module's: the view, the
\* filters and the lists of an earlier visit stay.
Enter(t) ==
    /\ ~console.open /\ tasks[t] = NoTask
    /\ clicks < MaxClicks /\ clicks' = clicks + 1
    /\ tasks' = [tasks EXCEPT ![t] = [at |-> "me"]]
    /\ UNCHANGED <<store, screen, raced, stale, own, owed, crossed>>

\* attachSidebarNav
Nav(t, v) ==
    /\ Click(t)
    /\ v # console.view \/ console.client # None
    /\ StartLoad(t, v, IF v = "clients" THEN list[v].page ELSE 1,
                 [console EXCEPT !.view = v, !.nav = v, !.client = None], dom)
    /\ UnchangedByLoad

\* "Lihat log" in a client's row.
ViewLogs(t, c) ==
    /\ Click(t)
    /\ TableShown("clients")
    /\ StartLoad(t, "logs", 1,
                 [console EXCEPT !.view = "logs", !.nav = "logs", !.client = c], dom)
    /\ UnchangedByLoad

LogsBack(t) ==
    /\ Click(t)
    /\ ClientLogShown
    /\ StartLoad(t, "clients", list["clients"].page,
                 [console EXCEPT !.view = "clients", !.nav = "clients", !.client = None], dom)
    /\ UnchangedByLoad

\* Defect for the checks: the list is loaded under the filter it had.
FilterAfter(t, v, f) ==
    /\ Click(t)
    /\ FilterShown(v)
    /\ StartLoadOf(t, v, Query(v, console), 1, [console EXCEPT !.want[v] = f], dom)
    /\ UnchangedByLoad

\* A filter or the search: back to page 1.
Filter(t, v, f) ==
    /\ Click(t)
    /\ FilterShown(v)
    /\ StartLoad(t, v, 1, [console EXCEPT !.want[v] = f], dom)
    /\ UnchangedByLoad

TurnTo(t, v, p) ==
    /\ Click(t)
    /\ TableShown(v)
    /\ StartLoad(t, v, p, console, dom)
    /\ UnchangedByLoad

\* paginationListeners: the buttons are drawn from the list's own metadata.
Prev(t, v) ==
    /\ list[v].page > 1 /\ MetaOf(v).page > 1
    /\ TurnTo(t, v, MetaOf(v).page - 1)

NextPage(t, v) ==
    /\ list[v].page < list[v].total /\ MetaOf(v).page < MetaOf(v).total
    /\ TurnTo(t, v, MetaOf(v).page + 1)

GoToPage(t, v, p) ==
    /\ p \in 1 .. list[v].total /\ p # list[v].page /\ p # MetaOf(v).page
    /\ TurnTo(t, v, p)

\* The view whose rows have the button, and whose list is loaded afterwards.
ViewOf(kind) ==
    IF kind \in {"create", "edit", "delete", "regen"} THEN "clients"
    ELSE IF kind = "reset" THEN "mfa" ELSE "users"

\* openCreateModal, openEditModal, openDeleteConfirm, openRegenConfirm,
\* openMoveDirectoryConfirm, openMfaResetConfirm
OpenModal(kind, c) ==
    /\ console.open /\ modal.kind = "none"
    /\ TableShown(ViewOf(kind))
    /\ (c # None) = (kind \in {"edit", "delete", "regen"})
    /\ modal' = [kind |-> kind, on |-> c, busy |-> FALSE, shown |-> 0]
    /\ UNCHANGED <<store, console, list, loading, dom, tasks, history>>

\* "Batal", "Sudah disimpan", or a click beside the dialog, also while it is
\* busy.
CloseModal ==
    /\ modal.kind # "none"
    /\ modal' = NoModal
    /\ owed' = IF modal.kind = "secret" /\ modal.shown = secret[modal.on]
               THEN owed \ {modal.on} ELSE owed
    /\ UNCHANGED <<store, console, list, loading, dom, tasks, raced, stale, own, crossed,
                   clicks>>

Submitting == {t \in Tasks : tasks[t].at \in {"submitted", "changed"}}

SendChange(t, kind, c) ==
    /\ tasks[t] = NoTask
    /\ tasks' = [tasks EXCEPT ![t] = [at |-> "submitted", kind |-> kind, on |-> c, ver |-> 0]]
    /\ crossed' = (crossed \/ Submitting # {})

\* The dialog's button; the client it makes gets a name of Clients.
SubmitModal(t) ==
    /\ modal.kind \in Dialogs /\ ~modal.busy
    /\ clicks < MaxClicks /\ clicks' = clicks + 1
    /\ SendChange(t, modal.kind, modal.on)
    /\ modal' = [modal EXCEPT !.busy = TRUE]
    /\ UNCHANGED <<store, console, list, loading, dom, raced, stale, own, owed>>

\* The buttons that ask nothing, or twice.
RowButton(t, kind) ==
    /\ Click(t)
    /\ TableShown("users")
    /\ SendChange(t, kind, None)
    /\ UNCHANGED <<store, screen, raced, stale, own, owed>>

ConsoleLogout(t) ==
    /\ Click(t)
    /\ tasks' = [tasks EXCEPT ![t] = [at |-> "logout"]]
    /\ UNCHANGED <<store, screen, raced, stale, own, owed, crossed>>

\* Back or forward: the overlay goes, a dialog stays.
LeaveConsole ==
    /\ console.open
    /\ clicks < MaxClicks /\ clicks' = clicks + 1
    /\ console' = [console EXCEPT !.open = FALSE]
    /\ UNCHANGED <<store, list, loading, dom, modal, tasks, raced, stale, own, owed, crossed>>

-----------------------------------------------------------------------------
(* The server.                                                             *)

\* The rows a list asks for, and the count of its pages, as of now.
ServeLoad(t) ==
    /\ tasks[t].at = "sent"
    /\ tasks' = [tasks EXCEPT ![t].at = "answered", ![t].ver = version[tasks[t].view]]
    /\ UNCHANGED <<store, screen, history>>

Touch(v) == version' = [version EXCEPT ![v] = @ + 1]

\* POST /clients: a client and a secret nobody has seen.
CreateClient(t, c) ==
    /\ tasks[t].at = "submitted" /\ tasks[t].kind = "create"
    /\ secret[c] = 0
    /\ secret' = [secret EXCEPT ![c] = 1]
    /\ Touch("clients")
    /\ tasks' = [tasks EXCEPT ![t].at = "changed", ![t].on = c,
                              ![t].ver = version["clients"] + 1]
    /\ owed' = owed \cup {c}
    /\ UNCHANGED <<screen, raced, stale, own, crossed, clicks>>

There(c) == secret[c] \notin {0, None}

\* POST /clients/:id/regenerate-secret
RegenerateSecret(t) ==
    LET c == tasks[t].on IN
    /\ tasks[t].at = "submitted" /\ tasks[t].kind = "regen"
    /\ There(c)
    /\ secret' = [secret EXCEPT ![c] = @ + 1]
    /\ tasks' = [tasks EXCEPT ![t].at = "changed", ![t].ver = secret[c] + 1]
    /\ owed' = owed \cup {c}
    /\ UNCHANGED <<version, screen, raced, stale, own, crossed, clicks>>

\* DELETE /clients/:id; a client that is gone is refused (ChangeFails).
DeleteClient(t) ==
    LET c == tasks[t].on IN
    /\ tasks[t].at = "submitted" /\ tasks[t].kind = "delete"
    /\ There(c)
    /\ secret' = [secret EXCEPT ![c] = None]
    /\ Touch("clients")
    /\ tasks' = [tasks EXCEPT ![t].at = "changed", ![t].ver = version["clients"] + 1]
    /\ owed' = owed \ {c}
    /\ UNCHANGED <<screen, raced, stale, own, crossed, clicks>>

\* The other changes: PATCH /clients/:id, the account's status, password
\* requirement and directory, and the reset of its second factor.
ChangeRow(t) ==
    LET v == ViewOf(tasks[t].kind) IN
    /\ tasks[t].at = "submitted"
    /\ tasks[t].kind \notin {"create", "regen", "delete"}
    /\ tasks[t].kind = "edit" => There(tasks[t].on)
    /\ Touch(v)
    /\ tasks' = [tasks EXCEPT ![t].at = "changed", ![t].ver = version[v] + 1]
    /\ UNCHANGED <<secret, screen, history>>

\* Another administrator changes what a list is about.
OtherAdmin(v) ==
    /\ clicks < MaxClicks /\ clicks' = clicks + 1
    /\ Touch(v)
    /\ UNCHANGED <<secret, screen, tasks, raced, stale, own, owed, crossed>>

-----------------------------------------------------------------------------
(* Answers.                                                                *)

EndTask(t) == tasks' = [tasks EXCEPT ![t] = NoTask]

\* An administrator gets the shell, whatever the view, and the clients' list.
MeArrives(t) ==
    /\ tasks[t].at = "me"
    /\ StartLoad(t, "clients", 1, [console EXCEPT !.open = TRUE, !.nav = "clients"],
                 [view |-> "clients", client |-> None, table |-> FALSE])
    /\ UNCHANGED <<store, list, modal, stale, own, owed, crossed, clicks>>

\* Nobody, or no administrator.
MeRefused(t) ==
    /\ tasks[t].at = "me"
    /\ EndTask(t)
    /\ UNCHANGED <<store, screen, history>>

\* Whatever the list's filters are by now; then renderMain.
LoadArrives(t) ==
    LET q == tasks[t] IN
    /\ q.at = "answered"
    /\ \E total \in {1, MaxPage} :
           list' = [list EXCEPT ![q.view] = [query |-> q.query, page |-> q.page,
                                             total |-> total, ver |-> q.ver]]
    /\ loading' = [loading EXCEPT ![q.view] = FALSE]
    /\ dom' = Rendered(console, loading')
    /\ stale' = [stale EXCEPT ![q.view] = FALSE]
    /\ EndTask(t)
    /\ UNCHANGED <<store, console, modal, raced, own, owed, crossed, clicks>>

\* The users' list is emptied, the others keep their rows.
LoadFails(t) ==
    LET v == tasks[t].view IN
    /\ tasks[t].at \in {"sent", "answered"}
    /\ list' = IF v = "users" THEN [list EXCEPT ![v].query = None] ELSE list
    /\ loading' = [loading EXCEPT ![v] = FALSE]
    /\ dom' = Rendered(console, loading')
    /\ stale' = [stale EXCEPT ![v] = TRUE]
    /\ EndTask(t)
    /\ UNCHANGED <<store, console, modal, raced, own, owed, crossed, clicks>>

\* setSubmitLoading(false), of the dialog open now; no row button calls it.
Released(q) == IF q.kind \in Dialogs THEN [modal EXCEPT !.busy = FALSE] ELSE modal

\* goneIfUnauthorized: the overlay goes, a dialog stays.
Gone(t) ==
    /\ tasks[t].at \in {"sent", "submitted"}
    /\ console' = [console EXCEPT !.open = FALSE]
    /\ IF tasks[t].at = "sent"
       THEN /\ loading' = [loading EXCEPT ![tasks[t].view] = FALSE]
            /\ stale' = [stale EXCEPT ![tasks[t].view] = TRUE]
            /\ UNCHANGED modal
       ELSE modal' = Released(tasks[t]) /\ UNCHANGED <<loading, stale>>
    /\ EndTask(t)
    /\ UNCHANGED <<store, list, dom, raced, own, owed, crossed, clicks>>

\* Defect for the checks: the dialog is closed after the secret is shown.
AfterChangeClosed(q) == IF q.kind \in Dialogs THEN NoModal ELSE modal

\* closeModal, whichever dialog is open; then showSecretModal.
AfterChange(q) ==
    IF q.kind \in {"create", "regen"}
    THEN [kind |-> "secret", on |-> q.on, busy |-> FALSE,
          shown |-> IF q.kind = "create" THEN 1 ELSE q.ver]
    ELSE IF q.kind \in Dialogs THEN NoModal ELSE modal

\* The page loaded again: after a deletion the one before, if the list held
\* a single row.
PagesAfter(kind) ==
    LET p == list[ViewOf(kind)].page IN
    IF kind = "create" THEN {1}
    ELSE IF kind = "delete" /\ p > 1 THEN {p, p - 1} ELSE {p}

\* A new secret changes no list.
SecretArrives(t) ==
    /\ tasks[t].at = "changed" /\ tasks[t].kind = "regen"
    /\ modal' = AfterChange(tasks[t])
    /\ EndTask(t)
    /\ UNCHANGED <<store, console, list, loading, dom, history>>

\* Defect for the checks: the list is not loaded again.
ChangeOnly(t) ==
    LET v == ViewOf(tasks[t].kind) IN
    /\ tasks[t].at = "changed" /\ tasks[t].kind # "regen"
    /\ modal' = AfterChange(tasks[t])
    /\ own' = [own EXCEPT ![v] = tasks[t].ver]
    /\ EndTask(t)
    /\ UNCHANGED <<store, console, list, loading, dom, raced, stale, owed, crossed, clicks>>

\* The other changes load their list, whatever is shown by now.
ChangeAnswered(t) ==
    LET v == ViewOf(tasks[t].kind) IN
    /\ tasks[t].at = "changed" /\ tasks[t].kind # "regen"
    /\ modal' = AfterChange(tasks[t])
    /\ own' = [own EXCEPT ![v] = tasks[t].ver]
    /\ \E p \in PagesAfter(tasks[t].kind) : StartLoad(t, v, p, console, dom)
    /\ UNCHANGED <<store, list, stale, owed, crossed, clicks>>

\* Refused, or the answer never came: the dialog open now is released.
ChangeFails(t) ==
    /\ tasks[t].at \in {"submitted", "changed"}
    /\ modal' = Released(tasks[t])
    /\ crossed' = (crossed \/ tasks[t].at = "changed")
    /\ EndTask(t)
    /\ UNCHANGED <<store, console, list, loading, dom, raced, stale, own, owed, clicks>>

\* Whether or not the server heard it; a dialog stays.
LogoutEnds(t) ==
    /\ tasks[t].at = "logout"
    /\ console' = [console EXCEPT !.open = FALSE]
    /\ EndTask(t)
    /\ UNCHANGED <<store, list, loading, dom, modal, history>>

Admin(t) ==
    \/ Enter(t)
    \/ \E v \in Views : Nav(t, v) \/ Prev(t, v) \/ NextPage(t, v)
    \/ \E c \in Clients : ViewLogs(t, c)
    \/ LogsBack(t)
    \/ \E v \in Views, f \in Filters \cup {All} : Filter(t, v, f)
    \/ \E v \in Views, p \in PageNumber : GoToPage(t, v, p)
    \/ SubmitModal(t)
    \/ \E kind \in RowButtons : RowButton(t, kind)
    \/ ConsoleLogout(t)

Server(t) ==
    \/ ServeLoad(t)
    \/ \E c \in Clients : CreateClient(t, c)
    \/ RegenerateSecret(t)
    \/ DeleteClient(t)
    \/ ChangeRow(t)

Answer(t) ==
    \/ MeArrives(t)
    \/ MeRefused(t)
    \/ LoadArrives(t)
    \/ LoadFails(t)
    \/ Gone(t)
    \/ SecretArrives(t)
    \/ ChangeAnswered(t)
    \/ ChangeFails(t)
    \/ LogoutEnds(t)

ConsoleNext ==
    \/ \E t \in Tasks : Admin(t) \/ Server(t) \/ Answer(t)
    \/ \E kind \in Dialogs, c \in Clients \cup {None} : OpenModal(kind, c)
    \/ CloseModal
    \/ LeaveConsole
    \/ \E v \in Views : OtherAdmin(v)

ConsoleSpec == ConsoleInit /\ [][ConsoleNext]_consoleVars

-----------------------------------------------------------------------------
(* Properties.                                                             *)

\* What a list shows is the answer to the filters above it, unless two loads of
\* it overlapped, of which the one that answers last stays, or its last load
\* failed (AdminPage loadUsers, loadLogs, loadMfaUsers, loadClients).
ListsAnswerTheirFilters ==
    LET v == console.view IN
    dom.view = v /\ ~loading[v] /\ ~raced[v] /\ ~stale[v] =>
        list[v].query \in {None, Query(v, console)}

\* Once a change made here is acknowledged and its list loaded again, the list
\* shows it, with the same reservations.
OwnChangesShow ==
    \A v \in Views :
        ~loading[v] /\ ~raced[v] /\ ~stale[v] => list[v].ver >= own[v]

\* A secret that this console had made is shown until the administrator closes
\* it, "Secret tidak akan ditampilkan lagi" (AdminPage showSecretModal), unless
\* two changes overlapped, as the second answer closes whatever dialog is open.
SecretsReachTheAdmin ==
    \A c \in owed :
        \/ modal.kind = "secret" /\ modal.on = c /\ modal.shown = secret[c]
        \/ \E t \in Submitting : tasks[t].on = c
        \/ crossed

=============================================================================
