--------------------------- MODULE PasswordExpiry ---------------------------
(***************************************************************************)
(* The validity period of an internal user's password: the status the      *)
(* login gate computes for one user (getPasswordExpiry) and the filter the *)
(* admin list sends to the database (passwordStatusWhere).                 *)
(*                                                                         *)
(* Source: packages/auth-service/src/services/password-expiry.service.ts   *)
(* Times are milliseconds.  The state is one user seen while time passes.  *)
(***************************************************************************)
EXTENDS Integers

CONSTANTS
    Times,      \* instants
    DayCounts,  \* values of PASSWORD_MAX_AGE_DAYS and PASSWORD_WARNING_DAYS
    NoDate      \* a null date

ASSUME TimesAssumption == Times \subseteq Int /\ NoDate \notin Int
ASSUME DayCountsAssumption == DayCounts \subseteq Nat \ {0}

VARIABLES
    config,  \* getPasswordExpiryConfig()
    user,    \* the user's row
    now

expiryVars == <<config, user, now>>

DAY == 86400000

Config == [start: Times \cup {NoDate}, maxAgeDays: DayCounts, warningDays: DayCounts]
User == [internal: BOOLEAN, passwordChangedAt: Times \cup {NoDate},
         passwordMustChange: BOOLEAN]
Statuses == {"ok", "warning", "expired"}

ExpiryTypeOK == config \in Config /\ user \in User /\ now \in Times

-----------------------------------------------------------------------------
(* getPasswordExpiry                                                       *)

\* Defect for the checks: the go-live date is no lower bound.
CountFromChange(u, c) ==
    IF u.passwordChangedAt # NoDate THEN u.passwordChangedAt ELSE c.start
CountFrom(u, c) ==
    IF u.passwordChangedAt # NoDate /\ u.passwordChangedAt > c.start
    THEN u.passwordChangedAt ELSE c.start

ExpiresAt(u, c) == CountFrom(u, c) + c.maxAgeDays * DAY

\* Math.ceil of the remaining days.
DaysLeft(u, t, c) == -((t - ExpiresAt(u, c)) \div DAY)

\* Defect for the checks: expired only at the very instant.
PastExactly(u, t, c) == t = ExpiresAt(u, c)
Past(u, t, c) == t >= ExpiresAt(u, c)

GetPasswordExpiry(u, t, c) ==
    IF ~u.internal \/ c.start = NoDate THEN "ok"
    ELSE IF u.passwordMustChange \/ Past(u, t, c) THEN "expired"
    ELSE IF DaysLeft(u, t, c) <= c.warningDays THEN "warning" ELSE "ok"

-----------------------------------------------------------------------------
(* passwordStatusWhere: the rows a filter selects.  No condition compares  *)
(* a null, so SQL's third truth value does not occur.                      *)

\* Defect for the checks: lt instead of lte.
CountFromBefore(u, cutoff, c) ==
    /\ c.start < cutoff
    /\ u.passwordChangedAt = NoDate \/ u.passwordChangedAt < cutoff
CountFromAtOrBefore(u, cutoff, c) ==
    /\ c.start <= cutoff
    /\ u.passwordChangedAt = NoDate \/ u.passwordChangedAt <= cutoff

ExpiredByAge(u, t, c) == CountFromAtOrBefore(u, t - c.maxAgeDays * DAY, c)
WarnByAge(u, t, c) ==
    CountFromAtOrBefore(u, t - (c.maxAgeDays - c.warningDays) * DAY, c)

ExpiredWhere(u, t, c) ==
    u.internal /\ (u.passwordMustChange \/ ExpiredByAge(u, t, c))

PasswordStatusWhere(status, u, t, c) ==
    IF c.start = NoDate THEN status = "ok"
    ELSE CASE status = "expired" -> ExpiredWhere(u, t, c)
           [] status = "warning" ->
                /\ u.internal /\ ~u.passwordMustChange
                /\ WarnByAge(u, t, c)
                /\ ~ExpiredByAge(u, t, c)
           [] status = "ok" ->
                ~(ExpiredWhere(u, t, c) \/ (u.internal /\ WarnByAge(u, t, c)))

-----------------------------------------------------------------------------
ExpiryInit == config \in Config /\ user \in User /\ now \in Times

TimePasses == now' \in {t \in Times : t > now} /\ UNCHANGED <<config, user>>

ExpirySpec == ExpiryInit /\ [][TimePasses]_expiryVars

-----------------------------------------------------------------------------
(* Properties.                                                             *)

\* The admin list shows a user under exactly the status the login gate would
\* compute for him: the two computations of one boundary agree, to the
\* millisecond (the comment of passwordStatusWhere claims they do).
FilterAgrees ==
    \A s \in Statuses :
        PasswordStatusWhere(s, user, now, config) <=> GetPasswordExpiry(user, now, config) = s

\* Nobody's password expires by age before the go-live date plus the maximum
\* age, however old it is.
GraceAfterStart ==
    (GetPasswordExpiry(user, now, config) = "expired" /\ ~user.passwordMustChange) =>
        now >= config.start + config.maxAgeDays * DAY

\* A warned user always has a whole number of days, at least one, left.
WarningComesInTime ==
    GetPasswordExpiry(user, now, config) = "warning" =>
        DaysLeft(user, now, config) \in 1..config.warningDays

Worse(s) == CASE s = "ok" -> Statuses [] s = "warning" -> {"warning", "expired"}
              [] s = "expired" -> {"expired"}

\* As long as the password is not changed, its status only gets worse.
StatusOnlyWorsens ==
    [][GetPasswordExpiry(user', now', config') \in
        Worse(GetPasswordExpiry(user, now, config))]_expiryVars

=============================================================================
