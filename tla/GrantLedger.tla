---------------------------- MODULE GrantLedger ----------------------------
(***************************************************************************)
(* What the OAuthToken table promises, whatever handlers run against it.   *)
(* A grant (one row) is opened once for an owner, carries at most one      *)
(* current refresh token, may be rotated to a token never seen before      *)
(* while it is open, and once ended is never opened again.  TokenGrants    *)
(* implements this ledger.                                                 *)
(***************************************************************************)
CONSTANTS
    Grants,   \* identities of grants
    Owners,   \* what a grant is bound to for life
    Tokens,   \* refresh tokens, compared by identity
    NoToken   \* a grant without a refresh token

VARIABLES
    grant,    \* each grant's owner and current token, Unused or Ended
    seen      \* tokens that are or were current

Unused == [status |-> "unused"]  \* never opened
Ended == [status |-> "ended"]    \* revoked or removed
Open == [status: {"open"}, owner: Owners, current: Tokens \cup {NoToken}]

LedgerInit ==
    /\ grant = [g \in Grants |-> Unused]
    /\ seen = {}

OpenGrant(g, o, t) ==
    /\ grant[g] = Unused
    /\ t \notin seen
    /\ grant' = [grant EXCEPT ![g] = [status |-> "open", owner |-> o, current |-> t]]
    /\ seen' = seen \cup ({t} \ {NoToken})

RotateGrant(g, t) ==
    /\ grant[g] \in Open
    /\ t \notin seen
    /\ grant' = [grant EXCEPT ![g].current = t]
    /\ seen' = seen \cup {t}

EndGrants(S) ==
    /\ \A g \in S : grant[g] \in Open
    /\ grant' = [g \in Grants |-> IF g \in S THEN Ended ELSE grant[g]]
    /\ UNCHANGED seen

LedgerNext ==
    \/ \E g \in Grants, o \in Owners, t \in Tokens \cup {NoToken} : OpenGrant(g, o, t)
    \/ \E g \in Grants, t \in Tokens : RotateGrant(g, t)
    \/ \E S \in SUBSET Grants : EndGrants(S)

LedgerSpec == LedgerInit /\ [][LedgerNext]_<<grant, seen>>

=============================================================================
