---- MODULE Sessions ----
(***************************************************************************)
(* Who gets in: the login of module Login with the admin_users row it      *)
(* reads, the token it mints (auth.py), and the gate that every request    *)
(* passes (middleware.py, require_admin), while accounts are changed and   *)
(* the service restarts with other settings.                               *)
(***************************************************************************)
EXTENDS Login

CONSTANTS
    ExpireSeconds,  \* settings.jwt_expire_minutes
    AnswerSeconds,  \* bound on the time from the read of a row to the answer of the login
    Claims,         \* the claims a token may be bound by: aud and iss
    Configurations, \* the settings the service may be started with
    None,           \* no row, no token, an unset setting
    MaxChanges      \* bound on the changes of accounts

\* config.py: jwt_secret and jwt_algorithm together, as "secret", since a token that was
\* signed under either another key or another algorithm is refused; and for each claim
\* the value it must have, None if unset.
ASSUME ConfigurationsAssumption ==
    /\ \A s \in Configurations : s = [secret |-> s.secret, bind |-> s.bind] /\ DOMAIN s.bind = Claims
    /\ Configurations # {}
ASSUME SessionLimitsAssumption ==
    ExpireSeconds \in Nat \ {0} /\ AnswerSeconds \in Nat /\ MaxChanges \in Nat
ASSUME NoneAssumption == None \notin Nat /\ None \notin {"admin", "user", "inactive"}

VARIABLES
    account,   \* is_active and role of each admin_users row
    row,       \* the row each login has read, and when
    session,   \* a token that was answered, any one: whoever holds it may use it
    settings,  \* the Settings of the running process
    changes,   \* how often accounts have changed
    minted,    \* history: the settings the session was answered under
    lastAdmin  \* history: when each account was last an active admin, None if never

sessionVars == <<account, row, session, settings, changes, minted, lastAdmin>>
allVars == <<now, failures, usedTotp, req, accepted,
             account, row, session, settings, changes, minted, lastAdmin>>

\* Two columns in one: an inactive account has no role that matters.
Status == {"admin", "user", "inactive"}
Row == [status : Status \cup {None}, at : Nat]
Secrets == {s.secret : s \in Configurations}
Bindings == {s.bind : s \in Configurations}
Token == [sub : Accounts, role : Status, exp : Nat, secret : Secrets, bind : Bindings]

\* The types of Login and of the variables added to it.
SessionTypeOK ==
    /\ TypeOK
    /\ account \in [Accounts -> Status]
    /\ row \in [Requests -> Row \cup {None}]
    /\ \A r \in Requests : row[r] # None => req[r].phase = "lookup" /\ row[r].at <= now
    /\ session \in Token \cup {None}
    /\ settings \in Configurations /\ minted \in Configurations
    /\ changes \in Nat
    /\ lastAdmin \in [Accounts -> Nat \cup {None}]
----
(***************************************************************************)
(* Tokens.  Operators named Lasting..., Bare..., Insisting... and Kept...  *)
(* are variants of what follows them with a plausible bug; no              *)
(* specification uses them.                                                *)
(***************************************************************************)

BareToken(email, role) ==
    [sub |-> email, role |-> role, exp |-> now + ExpireSeconds,
     secret |-> settings.secret, bind |-> [c \in Claims |-> None]]

\* create_access_token.
NewToken(email, role) ==
    [sub |-> email, role |-> role, exp |-> now + ExpireSeconds,
     secret |-> settings.secret, bind |-> settings.bind]

InsistingDecodes(t) ==
    /\ t.secret = settings.secret /\ now < t.exp
    /\ \A c \in Claims : t.bind[c] = settings.bind[c]

LastingDecodes(t) ==
    /\ t.secret = settings.secret
    /\ \A c \in Claims : settings.bind[c] # None => t.bind[c] = settings.bind[c]

\* _decode_token: the signature, the expiry, and the claims the settings bind; a
\* claim that is not bound is not looked at.
Decodes(t) ==
    /\ t.secret = settings.secret /\ now < t.exp
    /\ \A c \in Claims : settings.bind[c] # None => t.bind[c] = settings.bind[c]

\* The status _handle and require_admin answer a credential with, 200 for whatever
\* the route answers when it is reached.  PUBLIC_PATHS and OPTIONS need no token (two
\* of them check a service token instead), logout any token, the rest an admin's.
Gate(route, credential) ==
    CASE route = "public" -> 200
      [] route # "public" /\ credential = None -> 401
      [] route # "public" /\ credential # None ->
           IF ~Decodes(credential) THEN 401
           ELSE IF route # "logout" /\ credential.role # "admin" THEN 403 ELSE 200
----
(***************************************************************************)
(* Steps.  Every one is a step of Login or leaves its variables alone.     *)
(***************************************************************************)

SessionInit ==
    /\ Init
    /\ account \in [Accounts -> Status]
    /\ row = [r \in Requests |-> None]
    /\ session = None
    /\ settings \in Configurations
    /\ minted = settings
    /\ changes = 0
    /\ lastAdmin = [a \in Accounts |-> IF account[a] = "admin" THEN 0 ELSE None]

\* The request comes; an admitted one has read nothing yet.
Arrive(r) ==
    /\ Begin(r)
    /\ UNCHANGED sessionVars

\* get_by_email: the row is read some time before its answer is.
ReadRow(r) ==
    /\ req[r].phase = "lookup" /\ row[r] = None
    /\ row' = [row EXCEPT ![r] =
                 [status |-> IF req[r].email \in Accounts THEN account[req[r].email] ELSE None,
                  at |-> now]]
    /\ UNCHANGED <<vars, account, session, settings, changes, minted, lastAdmin>>

KeptForget(r) == row' = [row EXCEPT ![r] = row[r]]

\* The request is over and with it the row it read.
Forget(r) == row' = [row EXCEPT ![r] = None]

\* A row that does not exist, is inactive, or whose password is another; also a
\* query that raises.
Refuse(r) ==
    /\ \/ LookupFails(r)
       \/ row[r] # None /\ RejectCredentials(r)
       \/ row[r] # None /\ row[r].status \in {"admin", "user"} /\ RejectTotp(r)
    /\ Forget(r)
    /\ UNCHANGED <<account, session, settings, changes, minted, lastAdmin>>

\* The login succeeds and the token is answered.
Grant(r) ==
    /\ row[r] # None /\ row[r].status \in {"admin", "user"} /\ Accept(r)
    /\ Forget(r)
    /\ session' \in {session, NewToken(req[r].email, row[r].status)}
    /\ minted' = IF session' = session THEN minted ELSE settings
    /\ UNCHANGED <<account, settings, changes, lastAdmin>>

\* Whoever owns the table changes an account.
ChangeAccount ==
    /\ changes < MaxChanges /\ changes' = changes + 1
    /\ \E a \in Accounts, s \in Status :
         /\ s # account[a]
         /\ account' = [account EXCEPT ![a] = s]
         /\ lastAdmin' = IF s = "admin" \/ account[a] = "admin"
                         THEN [lastAdmin EXCEPT ![a] = now] ELSE lastAdmin
    /\ UNCHANGED <<vars, row, session, settings, minted>>

\* The service is started again, perhaps with other settings; tokens are not its state.
Reconfigure ==
    /\ Restart
    /\ row' = [r \in Requests |-> None]
    /\ settings' \in Configurations
    /\ UNCHANGED <<account, session, changes, minted, lastAdmin>>

\* A row that was read is answered within AnswerSeconds.
SessionTick ==
    /\ Tick
    /\ \A r \in Requests : row[r] # None => now < row[r].at + AnswerSeconds
    /\ lastAdmin' = [a \in Accounts |-> IF account[a] = "admin" THEN now' ELSE lastAdmin[a]]
    /\ UNCHANGED <<account, row, session, settings, changes, minted>>

SessionNext ==
    \/ \E r \in Requests : Arrive(r) \/ ReadRow(r) \/ Refuse(r) \/ Grant(r)
    \/ ChangeAccount \/ Reconfigure \/ SessionTick

SessionSpec == SessionInit /\ [][SessionNext]_allVars
----
(***************************************************************************)
(* Properties.                                                             *)
(***************************************************************************)

\* Nothing revokes a token, so an account that loses its rights keeps its access, but
\* no longer than a token lasts, and a login that had read the row before it changed
\* ("lifetime is 60 min by default", docs/SERVICE_OVERVIEW.md:114; require_admin,
\* auth.py:36-40).
AccessEndsInTime ==
    session # None /\ Gate("admin", session) = 200
    => /\ lastAdmin[session.sub] # None
       /\ now < lastAdmin[session.sub] + AnswerSeconds + ExpireSeconds

\* A token lasts until it expires through every restart that keeps key and algorithm, unless
\* the new settings bind a claim otherwise than those it was minted under ("tokens
\* carrying an aud claim must still pass (rollout tolerance)", middleware.py:53).
SessionsSurvive ==
    /\ session # None /\ now < session.exp
    /\ settings.secret = minted.secret
    /\ \A c \in Claims : settings.bind[c] \in {None, minted.bind[c]}
    => Gate("logout", session) = 200
====
