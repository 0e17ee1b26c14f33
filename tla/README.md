# SADA SSO: specifications, model checking and proofs

This directory specifies the authorization server of this repository
(`packages/auth-service`), the API gateway in front of it (`packages/gateway`) and
its browser pages (`packages/auth-ui`) in TLA+. The code is the reference: every
definition is a translation of the source lines named for it in `PROJECT.json`
(`map`).

## 1. The system

SADA is the single sign-on of an organisation. `auth-service` is an Express
server over PostgreSQL (Prisma) and Redis. Its handlers are async functions; no
handler uses a database transaction, a lock or a conditional update, so a handler
is atomic only between two awaited calls. `gateway` verifies access tokens
statelessly, with a Redis blacklist, and proxies to other services. `auth-ui` is
a single-page application: its state is the tab's `sessionStorage`, a few module
variables and the requests in flight.

| Component | State | Operations | Talks to |
|---|---|---|---|
| Authorization codes and grants (`oauth.service`, `token.service`) | tables `OAuthAuthorizationCode`, `OAuthToken`; Redis `blacklist:<token>` | create a code, exchange it, client credentials, refresh, revoke, hourly cleanup | client administration, gateway (through the blacklist) |
| Client administration (`client.service`) | table `OAuthClient` | create, update, new secret, delete | its tokens and codes, by three deletes and by cascade |
| Sessions and access (`session.service`, `login-issuer.service`, `auth.routes`, `oidc.routes`, `user.routes`) | Redis `session:<sid>`; `User.isActive` | login, token from a session, single and global logout, forced revocation, deactivation | grants, MFA and password gates |
| MFA (`mfa.routes`, `mfa.service`) | `User.mfa*`; Redis tickets and attempt counters | setup, enable, verify at login, disable, admin reset | login |
| Password expiry (`password-expiry.service`) | `User.passwordChangedAt`, `passwordMustChange` | status of one user, filter for the admin list | login, session, authorize |
| Password change (`password.routes`, `zimbra.service`) | the above; the Zimbra directory (external); Redis tickets and counters | change after expiry, change while signed in, an administrator's requirement | login |
| Accounts (`user.service`, `ldap.service`, `splp.service`) | table `User`: lockout counters, directory binding, type | register, local/LDAP/SPLP/social login, lock, move directory, reset password | directories (external) |
| Consent (`oauth.routes`, `AuthorizePage`) | Redis `consent:<user>:<client>` | ask, read, merge | codes |
| Signing keys and gateway (`config/keys`, `gateway`) | key files and `keyPair`; the gateway's JWKS cache | sign, publish, rotate, accept a token | JWKS endpoint, blacklist |
| auth-ui (`api`, `router`, `pages/*`) | `sessionStorage`, the page shown, requests in flight, the shared SSO cookie | log in, second factor, change password, portal, log out, silent renewal | the routes |
| Admin console (`AdminPage`) | four paged and filtered lists, dialogs, requests in flight | load, page, filter, create, change, delete | client and user routes |
| Audit, guards, shared | none the others depend on | | |

What makes each part correct:

- **Grants.** A code is redeemed once; a replay revokes; a refresh token that was
  exchanged or revoked is dead, whatever was in flight; a revoked token stays
  refused until it expires; deleting a client leaves nothing behind; nothing that
  is still live is cleaned up, everything expired is.
- **Sessions and access.** After a forced logout nothing the user held works and
  nothing comes back; a deactivated account obtains nothing.
- **MFA.** Guesses per ticket are bounded; a used backup code and a replaced
  secret stay dead; an account that demands a code has a secret.
- **Password expiry.** The gate and the admin list agree; nobody expires without
  warning or before the grace period ends.
- **Password change.** It is no way to guess a password; a block ends; a required
  change stays required until it is made.
- **Accounts.** A lock holds against guesses in flight; a directory binding is
  changed by an administrator only; the date of the last change never goes back.
- **Consent.** A code carries only scopes its user allowed; an approval is
  recorded for the account shown, and kept.
- **Gateway and keys.** A restart loses no login, a rotation reaches the gateway,
  a revoked token is refused while Redis is up.
- **auth-ui and console.** The token and the user stored are one account's; after
  a logout none is stored; a list answers its filters and shows acknowledged
  changes; a new secret reaches the administrator.

What is hard in this code is interleaving: every handler is a sequence of awaited
calls with checks on values read earlier, and every page acts on answers that may
arrive when another page is shown. Redis and PostgreSQL fail separately and are
never updated together. `PROJECT.json` (`hazards`) lists each place.

## 2. Plan

| Step | Modules | Content | State |
|---|---|---|---|
| 1 | `TokenGrants`, `GrantLedger` | codes, token table, revocation, cleanup, client deletion; the ledger they implement | checked, safety proved |
| 2 | `UserAccess` | login, sessions, codes and rows against global logout and deactivation | checked, proved |
| 3 | `PasswordExpiry` | the two computations of one boundary | checked, proved |
| 4 | `MfaLogin` | tickets, attempt counter, setup/enable/disable, backup codes | checked, proved |
| 5 | `Accounts` | failed-attempt counter, lock, LDAP directory binding and its move | checked, proved |
| 6 | `PasswordChange` | change through Zimbra, partial failure, the administrator's requirement | checked, proved |
| 7 | `Consent`, `GatewayKeys` | consent across tabs; key rotation, JWKS cache, blacklist | checked, safety proved |
| 8 | `AuthUI`, `AdminConsole` | storage and requests in flight of a tab; lists and dialogs of the console | checked, proved |
| 9 | | millisecond TTLs of the blacklist | open |

The modules meet at named points rather than in one product, which TLC could not
enumerate: `issueUserLogin` is several steps in `UserAccess` and one in `MfaLogin`
and `PasswordChange`; `revokeAllUserAccess` likewise; a code begins in `Consent`
and becomes a grant in `TokenGrants`. The composition within a run is that of
handlers over shared stores, and, in `GatewayKeys`, of two processes.

## 3. Modules

Common conventions. One slot of `Requests` is one running handler; `req[r]` is its
control point (`at`) and the values it has read. An action is the handler's code
up to and including the next awaited call; `Start` begins a handler, `Resume`
continues one, `World` is time and other systems. Random identifiers are model
values that are drawn once (`drawn`). Variables under "history" are written along
the way and read by properties only: most of them name the overlap under which
the code does not keep the promise, and section 5 says which those are. `MayFail`
names the stores that may throw at any call. `MC*` modules hold symmetry sets and
the instants of an instance. Operators commented "Defect for the checks" are
plausible bugs: the mutants of `PROJECT.json` put them in place of the definition
they precede or follow, and the property named must then fail.

### TokenGrants

| State | Code |
|---|---|
| `clients`, `codes`, `rows` | tables `OAuthClient`, `OAuthAuthorizationCode`, `OAuthToken` |
| `blacklist` | Redis keys `blacklist:<token>`, dropped when their TTL ends |
| `held` | tokens a response has carried; what callers may present |
| `drawn` | random identifiers already used (uniqueness of `randomBytes`, `cuid`, `randomUUID`) |
| `now` | whole seconds, the unit of `iat` and `exp` |
| `issued`, `replayed`, `rotations`, `revoked` | history |

| Handler | Actions, in order |
|---|---|
| `generateAuthorizationCode` | `GenerateCode`, `CreateCode` |
| `exchangeAuthorizationCode` | `ExchangeAuthenticate`, `ExchangeLookup`, then `ExchangeReuse`, `ExchangeExpire`, or `ExchangeMark` and `ExchangeStore` |
| `clientCredentialsGrant` | `MachineAuthenticate`, `MachineStore` |
| `refreshTokenGrant` | `RefreshAuthenticate`, `RefreshLookup`, then `RefreshExpire` or `RefreshUpdate` |
| `revokeToken` | `RevokeDelete`, `RevokeBlacklist` |
| `cleanupExpiredTokens` | `CleanupTokens`, `CleanupCodes` (one `Promise.all`, so in either order) |
| `clientService.delete` | `DeleteClientTokens`, `DeleteClientCodes`, `DeleteClientRow` |

A JWT is its claims. That keeps what matters of it: two access tokens of one
subject, scope list and second are the same string, so the unique index refuses
the second (`AccessFree`), while refresh tokens carry a `jti`. Redirect URI, PKCE
and secrets are inputs that fit or do not. A failing database ends a handler
where it stands (`DatabaseError`); a failing Redis is swallowed by `revokeToken`'s
catch, and that is part of `RevokeBlacklist`.

### GrantLedger

The abstract promise of the token table: a grant opens once, for one owner;
is rotated only to tokens never seen before; once ended is never opened again.
`TokenGrants` refines it: grants are row ids, a row that is gone but whose id was
drawn is an ended grant, and the current token is the row's refresh `jti`.

### UserAccess

What gives and takes a user's access: login (once its gates have passed),
`/auth/session/token`, `/oauth/authorize`, code exchange, refresh, and
`revokeAllUserAccess` in its five awaited calls (`RevokeRead`, `RevokeBlacklist`,
`RevokeRows`, `RevokeScan`, `RevokeSessions`), which the global logout, a required
password change, a directory move and a password change call. `Logout`,
`SetActive`, `CleanupTokens` and `Tick` are single steps. Rows are their access
tokens here; codes do not expire; the other ways a row may go are `TokenGrants`'
subject. Password expiry, which also guards sessions and authorize, and MFA are
gates that have passed. `swept` and `ended` record what a finished revocation had
found when it began; the fields `known` and `stored` of its request carry that
from step to step, and no guard reads them.

### PasswordExpiry

`getPasswordExpiry` and `passwordStatusWhere` as operators over milliseconds
(`Math.ceil` as integer division, `lte` against `>=`, nulls, the go-live date), and
one user seen while time passes.

### MfaLogin

The tickets between a password and its tokens (`mfa_pending:`, `mfa_setup:`,
`pwd_change:`), their attempt counters, and the MFA columns of `User`. `Login` and
`LoginTicket` are `maybeRequireMfa`; `VerifyPeek`..., `SetupPeek`..., `EnablePeek`...
are the three handlers that `peek` a ticket and `consume` it later, with the wrong
code bumping a counter after the check (`bump`, `drop`); disable and the
administrator's reset are the others. A TOTP code stands for the secret it is
computed from, so time steps, windows and encryption are abstracted, and a
presented code is right for one secret, one backup code, or `Wrong`.

### Accounts

One row of `User` per email, its entry in the two directories, the reset OTP.
`Directory` is the LDAP call of a login, `FindAccount` and `SaveAccount` what the
row becomes, `RecordAttempt` and `LockAccount` the two statements of
`recordFailedAttempt`; the SPLP and social logins, registration, `ForgotSet` to
`ResetDone`, and the administrator's move are the other handlers. The date of the
last change is a time of `now`, which the directory may hold too. Whether a typed
password is right is an input, and so is whether the typed name is one the row is
found by before the directory is asked (`NameFinds`; `user.service` 188-190, 306-311):
an alias finds no row, so it meets no lock and is not counted, although the
directory's answer leads to the row afterwards (207-211, 329-337). Units and other
fields of the profile are left out.

### PasswordChange

`SignIn` is a login at the expiry gate, `ChangeExpired` and `ChangeVoluntarily`
the two handlers of `password.routes`, from the ticket to its deletion:
`ReadUser`, `ReadAttempts`, `CallZimbra` or `ZimbraFails` (no answer in time,
whether or not the password changed), `CountWrong`, `StartWindow`, `ForgetWrong`,
`RecordChange`, `SweepLogins`, `IssueAfterChange`, `DeleteTicket`; `Require` is the
administrator's requirement. An inactive account and the policy's other rules are
refusals at any time. `revokeAllUserAccess` and `issueUserLogin` are one step; how
they fail half-way is `UserAccess`' subject.

### GatewayKeys

The pair of files and the pair in memory, a restart of either process, the loss
of the files; `SignToken`, `ServeJwks`; the gateway's cache and its fetch
(`FetchArrives`, `FetchFails`), the token check (`Lookup`, `CheckBlacklist`), what
the auth-service does with a forwarded request (`HandleForwarded`), introspection,
userinfo and revocation. The JWKS document holds one key, so finding it by `kid`
and falling back to the first are the same. Paths that need no token, rate limits
and the proxied bodies are left out. The gateway lets a request pass when Redis
does not answer (`unread`), as the code says it means to.

### Consent

A tab's flow of `AuthorizePage` (`init`, `handleAllow`, with the older
`authorize.ts` the same flow) against the handler of `GET /oauth/authorize`:
`Identify`, `CheckExpiry`, `FindClient`, `ReadConsent`, `WriteConsent`,
`IssueCode`. Both settle on their own who the user is, by the tab's bearer token
or the browser's cookie, and another tab may log in in between (`strays`). A client's
navigation may claim that consent was given; `Admitted` is the guard on Origin and
Referer that refuses it (`oauth.routes` 149-170), given that `CORS_ORIGIN` names the
pages' origin and no client's.

### AuthUI

One tab: `storage` is the keys of `sessionStorage` that pages pass each other,
`page` what is shown, `calls` the requests in flight with what their handler does
with the answer. `Act` is what the user or a page's `init` starts, `Arrive` an
answer, a network error or the silent renewal of `apiRequest` in between. The
servers may answer anything their routes can answer.

### AdminConsole

`console` is the module's state and what is open, `list` what each list shows (the
query it answers and the version of the rows), `dom` what was last drawn, `modal`
the dialog, `tasks` the handlers waiting for an answer. `Admin` is a click,
`Server` the request's effect, `Answer` its answer; `OtherAdmin` changes rows from
elsewhere.

## 4. Runs

| Run | Shows | Bounds |
|---|---|---|
| `grant_races` | spent and revoked refresh tokens stay dead, no orphans, a code is redeemed no more often than handlers run side by side, a replay removes what the code has stored, the ledger | 2 handlers, 1 code, 2 rows, 3 jtis, times 0..2 with access/refresh/code TTL 1/2/1 |
| `grant_lifetimes` | a revoked token is refused until it expires; a used code is remembered until it expires, and every code is purged then | 1 handler, 2 clients, both kinds of scopes, times 0..3, database errors; cleanup and clock fair |
| `access` | what a finished forced logout found is refused, and never written back | 2 handlers, 1 session, 2 rows, 1 code, TTLs 1, times 0..2, both stores fail |
| `password_expiry` | gate and filter agree; grace; warning before expiry | 15 instants around 5 day boundaries, 3 day counts |
| `mfa_login` | guesses per ticket bounded; retired factors dead; an enabled account has a secret | 2 handlers, 2 users (one with MFA), 2 tickets, 2 secrets, 2 lists of 2 backup codes, 2 attempts, database errors |
| `accounts` | the lock bounds guesses; only an administrator moves a binding; the change date never goes back | 2 handlers, 1 user, both directories, 2 attempts, lock of 1, times 1..2, every store and directory fails |
| `password_change` | guesses of the old password bounded; blocks end; a requirement holds | 2 handlers, 1 user, 2 passwords, 1 ticket, 2 logins, limit 2, both stores and Zimbra fail |
| `gateway_keys` | restarts keep logins, a rotation reaches the gateway, a revoked token is refused | 2 pairs, 1 token, 2 requests, cache TTL 1, times 0..2, disk, network, Redis and database fail |
| `consent` | codes and approvals match what a screen allowed; approvals are kept; flows end | 2 users, 1 client, 2 scopes, 2 tabs, TTL 1, times 0..1, 2 flows, 2 events, Redis fails, fair |
| `auth_ui` | token and user stored are one account's; a logout sticks | 2 users (one internal), 1 application, 2 requests in flight |
| `admin_console` | lists answer their filters, changes show, secrets are seen | 2 handlers, 2 clients, 1 filter, 3 pages, 4 clicks |

Two handlers are enough for the races: every hazard listed for these modules is
one handler's stale read against another's write. Two rows let one be rotated or
removed while the other is stored; three jtis allow an exchange and two
refreshes of it. In `grant_races`, `access`, `accounts` and `consent` the clock
passes every TTL at which a property speaks; in `gateway_keys` no token ends
within the bound (its life is 3), the cache does, which is what the properties
are about. Limits of 2 attempts make "the last allowed" and "one too many"
different steps, and the second handler is the guess in flight. Two users are
needed where one could act for another (`mfa_login`, `auth_ui`, `consent`), and
only there. Model values are interchangeable, and symmetry is used, except in the
fair runs and where a constant distinguishes them. Every run switches the deadlock
check off: the bounds on clock, identifiers and clicks let the models stop, and
the server has no state it must leave.

Each module's type invariant is stated in the module and proved (section 7); where
it is not among a run's properties (`TypeOK`, `UITypeOK`, `GatewayTypeOK`,
`AccountsTypeOK`, `PasswordTypeOK`, `AdminTypeOK`) the same instance was checked for it as well.
The same holds of `StatusOnlyWorsens`, which is proved.

## 5. Where the code differs from what is said of it

`cleanup_keeps_grants` expects a violation: the manual gives refresh tokens 7 days
(`docs/manual-book.md` 406), the hourly cleanup deletes their rows by the access
token's expiry (`token.service.ts` 198).

These formulas are stated in the modules too. TLC refutes each when it is put into
the module's configuration in place of the properties there:

| Module | Formula | Said | The code |
|---|---|---|---|
| `TokenGrants` | `CodeIsSingleUse` | a code is single-use (comment, changelog) | check and mark are two calls: two exchanges pass the check, both are answered (no more than run side by side: `RedemptionsBounded`) |
| | `ReplayRevokesIssued` | a replay revokes every token of the code (comment) | one recognised between mark and insert deletes nothing; what is stored by then does go (`ReplayRevokesStored`) |
| | `RefreshTokenIsSingleUse` | a used refresh token is replaced (manual) | `update` by id does not look whether the row still holds it |
| `UserAccess` | `GlobalLogoutEndsTokens` (one handler) | global logout revokes all tokens (integration guide) | tokens without a row, or rotated out of theirs, stay valid |
| | `InactiveGetsNoCode` (one handler) | a deactivated user cannot go on with an old cookie (comment) | `/oauth/authorize` never reads `isActive` |
| `MfaLogin` | `EnabledSecretIsConfirmed` | `mfaEnabled` stays false until the secret is confirmed (`mfa.routes` 151) | a second setup overwrites the secret between the enable handler's check and its write |
| `Accounts` | `EmployeesStayInternal` | INTERNAL accounts sign in through LDAP (`CONTEXT.md` 19) | an SPLP login retypes an account it finds by email (`user.service` 407-413) |
| `AuthUI` | `ReturnsToOrigin` | the return address is kept for the second factor (`MFAVerifyPage` 13-15) | the login's answer may arrive when the address shown is another's (`LoginPage` 178-189) |

Others the modules contain, seen while translating:

- **Revocation.** `revokeToken`'s catch, meant for tokens that do not verify, also
  swallows a Redis error: with `"redis"` in `MayFail`, `RevokedTokenIsRejected`
  fails. A token whose pair was rotated away does not verify either and is not
  blacklisted (`unlisted` in `GatewayKeys`); `/userinfo` does not look at
  revocation at all.
- **Inactive accounts.** The LDAP branch of `loginWithPassword` (with
  `loginWithLdap`) never reads `isActive`; `LoginAuthenticate` models it so.
- **Password change.** A Redis failure between `INCR` and `EXPIRE` leaves a counter
  that never ends, hence a block for good (`lost`). A change that is already past
  Zimbra when the administrator requires one clears the new flag (`overtaken`).
- **Accounts.** An error of the database inside the password check is counted as
  a wrong password (`user.service` 268). Wrong codes at `/auth/mfa/disable` are
  not counted, nor are wrong passwords typed with an alias, whatever lock its row
  has: `LockHolds` and `GuessesBounded` speak of names the row is found by.
  Forgot-password lowercases the address, registration does not.
- **Consent.** An approval is "session-scoped" by its comment, but a logout deletes
  nothing. A request without a scope is never asked about. Approved scopes are
  recorded before they are checked against the client's. A merge refreshes the
  life of every scope. An expired password ends the cookie's session even when
  the user came from the bearer token. Two approvals that overlap may lose one
  (`raced`).
- **auth-ui.** `apiRequest` renews and replays on any 401, a wrong password behind
  a stored token included (`api.ts` 294-296). A renewal that fails on the network
  counts as a refusal, so the storage is cleared, against the comment at
  325-326. `/auth/me` answers 400, not 401, so it is never renewed. A failed logout
  leaves the SSO cookie. A renewal in flight at a logout stores its token
  afterwards (`LogoutSticks` excepts it).
- **Admin console.** Loads carry no sequence number, so the older filter's answer
  stays if it comes last (`raced`). The users' pager reads the log's metadata
  (`paginationListeners`, `AdminPage` 1154). Dialogs live on `document.body` and
  survive logout and navigation; the answer of a second submission closes the
  dialog that shows the first's secret (`crossed`).

What the passing properties except, and why. The code does not prevent these
overlaps, and the hazards in `PROJECT.json` say so at their lines; each exception is
a history variable, and without it TLC refutes the property. What the property then
shows is that nothing else breaks the promise.

| Variable | The excepted event | Property |
|---|---|---|
| `MfaLogin!stale` | two handlers write one row of `User` from what both had read: a backup code is used twice or comes back | `RetiredFactorsAreDead`, `EnabledHasSecret` |
| `Accounts!stale` | a login writes back the binding or the date it read before a move or a change | `BindingIsTheAdmins`, `ChangeDateOnlyAdvances` |
| `PasswordChange!lost` | Redis failed at `INCR` or `EXPIRE`, or Zimbra's refusal never came: nobody counted a guess, or the counter has no end | `BlocksEnd`, `OldPasswordGuessesBounded` (`guesses` counts no further) |
| `overtaken` | a change or login past its gate when the administrator requires a change | `RequirementHolds` |
| `GatewayKeys!lost`, `late` | the key files were lost; an answer carried a key across its retirement | `TokensSurviveRestarts`; `GatewayFollowsRotation` |
| `unread`, `unlisted` | the gateway could not read the blacklist; a revocation was never written to it | `RevokedIsRefused` |
| `strays`, `raced` | an account changed behind a shown screen; two approvals overlapped | `CodesAreConsented`, `ConsentIsTheShownAccounts`; `ApprovalsAreKept` |
| `borrowed` | the user `AuthorizePage` stores beside another's token | `StorageIsOneAccounts` |
| `old` | a renewal that was under way at a logout | `LogoutSticks` |
| `AdminConsole!raced`, `stale`, `crossed` | two loads of one list overlapped, or the last failed; two submissions overlapped, or an answer was lost | `ListsAnswerTheirFilters`, `OwnChangesShow`; `SecretsReachTheAdmin` |

## 6. Fairness

`grant_lifetimes` and `consent` are fair. In `grant_lifetimes` `FairSpec` has weak
fairness of `CleanupCodes`, which `startTokenCleanup` runs from a timer for the life of
the process, and of `Tick`, because time passes. Of handlers nothing is assumed: one
may stop at any point, and the codes it leaves behind are purged all the same. In
`Consent` each step of the page and of the server is fair (the event loop
resumes a handler whose awaited call settled, and the drivers settle every call,
with an answer or an error); starting a flow, clicking, or calling a handler
never is: nobody is obliged to call.

## 7. Proofs

`tlapm` proves for every value of the constants, from the named assumptions of
the modules (TTLs and limits are naturals, the kinds of identifiers are disjoint,
`Absent` is none of them, the slots of handlers are finite):

| Module | Theorem | Statement |
|---|---|---|
| `TokenGrantsProofs` | `TypeCorrect` | `Spec => []TypeOK` |
| | `OrphanFree` | `Spec => []NoOrphans` |
| | `SpentStayDead`, `RevokedStayDead` | `Spec => []SpentTokensAreDead`, `[]RevokedRefreshIsDead` |
| | `UsedCodesRemembered`, `RedemptionsStayBounded` | `Spec => UsedCodeIsRemembered`, `[]RedemptionsBounded` |
| | `ReplaysRevoke` | `Spec => ReplayRevokesStored` |
| | `RevocationHolds` | if `"redis" \notin MayFail`, `Spec => []RevokedTokenIsRejected` |
| | `ImplementsLedger` | `Spec => LedgerRefined` |
| `UserAccessProofs` | `AccessTypesCorrect` | `Spec => []AccessTypeOK` |
| | `SweptRefused`, `EndedForGood` | `Spec => []SweptTokensAreRejected`, `[]EndedStaysEnded` |
| `PasswordProofs` | `FilterCorrect`, `GraceCorrect`, `WarningCorrect`, `OnlyWorsens` | `FilterAgrees`, `GraceAfterStart`, `WarningComesInTime`, `StatusOnlyWorsens` (of `ExpirySpec`) |
| | `PasswordTypesCorrect` | `Spec => []PasswordTypeOK` |
| | `GuessesStayBounded`, `BlocksHaveAnEnd`, `RequiredStaysRequired` | `Spec => []OldPasswordGuessesBounded`, `[]BlocksEnd`, `[]RequirementHolds` |
| `MfaLoginProofs` | `MfaTypesCorrect` | `Spec => []MfaTypeOK` |
| | `CodesCanBeGiven`, `DeadFactorsStayDead` | `Spec => []EnabledHasSecret`, `[]RetiredFactorsAreDead` |
| | `GuessesStayBounded` | if `"redis" \notin MayFail`, `Spec => []GuessesBounded` |
| `AccountsProofs` | `AccountsTypesCorrect` | `Spec => []AccountsTypeOK` |
| | `LocksHold`, `GuessesStayBounded` | `Spec => []LockHolds`, `[]GuessesBounded` |
| | `BindingStays`, `DatesAdvance` | `Spec => BindingIsTheAdmins`, `ChangeDateOnlyAdvances` |
| `GatewayKeysProofs` | `KeysTypesCorrect` | `Spec => []GatewayTypeOK` |
| | `SignedSurvive`, `RevokedStayOut` | `Spec => []TokensSurviveRestarts`, `[]RevokedIsRefused` |
| | `RotationReachesGateway` | `Spec => GatewayFollowsRotation` |
| `ConsentProofs` | `ConsentTypesCorrect` | `Spec => []ConsentTypeOK` |
| | `OnlyConsentedCodes`, `OnlyShownAccountsConsent`, `ApprovalsStay` | `Spec => []CodesAreConsented`, `[]ConsentIsTheShownAccounts`, `[]ApprovalsAreKept` |
| `AuthUIProofs` | `UITypesCorrect` | `Spec => []UITypeOK` |
| | `StorageStaysOneAccounts`, `LogoutsStick` | `Spec => []StorageIsOneAccounts`, `[]LogoutSticks` |
| | `ConsoleTypesCorrect` | `ConsoleSpec => []AdminTypeOK` |
| | `ListsFollowFilters`, `OwnChangesAreShown` | `ConsoleSpec => []ListsAnswerTheirFilters`, `[]OwnChangesShow` |
| | `SecretsAreHandedOver` | `ConsoleSpec => []SecretsReachTheAdmin` |

`PasswordProofs` extends `PasswordExpiry` and `PasswordChange`, `AuthUIProofs` extends
`AuthUI` and `AdminConsole`; that is why the names these have in common are told
apart (`ExpirySpec`, `ConsoleInit`, `ConsoleNext`, `ConsoleSpec`). They share no
variable: each theorem is about one of the two.

The type invariants are inductive as they stand, but for those of `Accounts`
(`AccountsInv`: a row that a handler has found stays), `GatewayKeys` (`TypesInv`:
a pair in memory has both halves) and `AdminConsole` (`ConsoleTypes`: the versions
of the rows stay below the clicks because every version was asked for, so they
and the submissions still to be served are together no more than the clicks, and
the cardinality lemmas of `FiniteSetTheorems` count those); a lemma (`ShapeOf`, `ShapeAt`) tells a request's
fields from its control point. The rest needs more:

- `NoOrphans` is inductive: an insert finds its client registered (the foreign
  key), and the last step of a deletion cascades.
- That a refresh token stays dead is not inductive: a handler in flight could
  write it. `DeadInv` adds that tokens in rows and in responses have been drawn, that
  no two rows share a refresh token, that a handler between lookup and update
  works on the only row its token is in, and that a handler between the two steps
  of a revoke has a dead one. `ColumnStepKeeps` says once what any step may do to
  the column: only one row gets a new token, and that token was not drawn before.
- `CodeInv` says that stored codes are drawn and that a handler about to delete an
  expired code has seen it expired; a code's expiry never changes, so it still is.
- `RedemptionsStayBounded` counts (`RedeemInv`): nothing is stored for a code that has
  not been marked (`Spent`), and once it is marked, or gone, no handler passes the
  check any more, since a code value is drawn once; so a handler that stores only
  moves from those past the check to the rows, and the sum stays below the number
  of slots. The cardinality lemmas of `FiniteSetTheorems` carry it.
- `ReplaysRevoke` needs that the replay deletes by the user its own request has read,
  and the rows were stored by other requests. `OwnerInv`: a code in the table, a
  handler that has read it and a row issued for it agree on the code's user. It holds
  because a code value is drawn once, so it never returns with another user, and
  because a rotation changes a row's tokens and never its user.
- The refinement classifies every step as removing rows, adding one under a fresh
  id, or rotating one (`NextRowStep`), and needs that stored ids are drawn: a row
  that goes is then an ended grant, not an unused one.
- `SweptRefused` needs what the revocation knows at each of its five calls
  (`SweptInv`): the tokens it read are blacklisted once its second call is over, and
  a blacklisted token stays so until it expires. `EndedForGood` (`EndedInv`) needs
  that ids are drawn once, so what is stored later is none of those that ended;
  and that a refresh, which updates by id, updates nothing that is gone.
- `FilterAgrees` rests on `CeilingOfDays`: rounding the remaining time up to days
  does not move the warning boundary.
- `DeadFactorsStayDead` (`FactorInv`) needs that every stored factor was drawn, that
  no two users share one, and that what a handler in flight has read of a row
  is that user's own: an overlap then marks the user `stale`, and nobody else's
  write brings the factor back.
- `GuessesStayBounded` of `MfaLoginProofs` counts handlers (`TicketInv`): a live
  ticket's guesses are its counter and the handlers about to count theirs, and once
  the counter is at the limit somebody is about to drop the ticket; a dead ticket
  has only the guesses in flight left, since whoever guesses has found it alive.
- `GuessesStayBounded` of `PasswordProofs` counts them too (`CounterInv`):
  every evaluated guess is in the counter or in a handler about to count it, and
  the counter together with the handlers past the check stays below the limit plus
  the number of slots, since whoever passes finds the counter below the limit. The
  cardinality lemmas of `FiniteSetTheorems` carry it.
- `LocksHold` (`LateInv`): while a lock lasts nobody begins to ask the directory, so
  the passwords tested late and the handlers still asking, both by names that find
  the row, are together fewer than the slots; the handler that set the lock is the one that asks no more.
  `GuessesStayBounded` of `AccountsProofs` (`GuessInv`): every wrong password is in the
  row's counter, or in a handler about to count it or to lock.
- `BindingStays` and `DatesAdvance` need of `AccountsInv` that dates are in the past
  and that a login about to write has compared the binding it read;
  `ColumnsWritten` says which steps touch the two columns at all.
- `SignedSurvive` (`PairInv`): a pair that was drawn is lost, or it is whole on disk and,
  if any is, the one in memory.
- `RotationReachesGateway` (`RotationInv`): the key in the cache was not retired
  when it was fetched, and a key in an answer on its way is in use or marked
  `late`.
- `RevokedStayOut` (`RevokedInv`): a revoked token has no row and stays listed until
  it ends; a request that came after the revocation carries that fact, and what
  it missed, through its calls.
- `RequiredStaysRequired` (`GateInv`): a handler past the gate that was not
  overtaken works for a user of whom nothing is required, so what it writes or
  issues offends nothing.
- `OnlyConsentedCodes` and `OnlyShownAccountsConsent` (`ConsentInv`, with `TabInv`
  for a tab's flow): what a tab is about to approve or to issue was allowed by the
  account it names, or the pair is a stray. `ApprovalsStay` (`KeptInv`): a handler
  that has read the record and not yet written has read all that must be kept.
- `StorageStaysOneAccounts` and `LogoutsStick` (`UIInv`): a step leaves the token and
  the user stored alone, clears both, or logs somebody in (`SameKeeps`,
  `ClearedKeeps`, `LoginKeeps`), and every request it makes carries the token it
  leaves (`Settles`). Once the user is out, a request under way that carries a token
  is therefore of before the logout: its renewal is the one `LogoutSticks` excepts.
- `ListsFollowFilters` and `OwnChangesAreShown` (`ListInv`, by list: `LoadsAreCurrent`,
  `ListsAreCurrent`, `ChangesAreKnown`): a load that nobody overlapped asks for the
  filters shown, and is answered after every change this console has had
  acknowledged, since an acknowledged change starts the load itself.
- `SecretsAreHandedOver` (`SecretInv`): until two submissions cross there is at most
  one, none while a dialog shows a secret, and a secret that is owed is in that one
  answer (`Brings`) or in the dialog (`Shows`).

TLC checked each strengthening as an invariant of the module's instance before it
was proved.

Model-checked only: liveness (`ExpiredCodesArePurged`, `FlowsEnd`), out of the prover's
reach.

## 8. Not modelled

- Creating and updating clients and regenerating a secret are single statements:
  `TokenGrants` takes their results as inputs and `AdminConsole` sees them as
  changes. `clientService.deactivate` has no caller, and the update schema strips
  `isActive`, so `Consent` lets a client be deactivated only by other means.
- Sub-second times: `revokeAllUserAccess` floors a millisecond difference into a
  TTL, which a clock in seconds cannot show.
- The directories, Zimbra, SPLP, Google and Facebook: external. What comes back of
  them is an input of `Accounts` and `PasswordChange`; the redirects and their state
  parameter are not followed. In `PasswordChange` the directory's date is read
  with the row, not as a call of its own.
- `CallbackPage`, `login.ts` and `callback.ts` of auth-ui: nothing starts the flows
  they end. `ForgotPasswordPage` is a form over `Accounts`' OTP. Markup, texts and
  styles.
- Impersonation is designed (`CONTEXT.md`, ADR 3) and has no code yet.
- The audit log and its queries are insert-only and read-only; CSRF, rate limits
  and request validation look at one request; proxying copies bodies; the shared
  library and the SDK have no state.
