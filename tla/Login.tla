---- MODULE Login ----
(***************************************************************************)
(* POST /auth/login (routes.py) over the in-memory LoginGuard              *)
(* (services/login_guard.py).                                              *)
(*                                                                         *)
(* The handler awaits once, for the admin_users row.  Everything before    *)
(* the await (is_locked) and everything after it (the checks, the guard's  *)
(* updates) runs in one go on the event loop, so a request takes two       *)
(* steps, and other requests run between them.                             *)
(***************************************************************************)
EXTENDS Integers, FiniteSets

CONSTANTS
    Requests,       \* slots for login requests in progress at the same time
    Ips,            \* client addresses
    Emails,         \* e-mail addresses as the client spells them
    Accounts,       \* the spellings that are an admin_users.email
    Lower,          \* str.lower on Emails
    Codes,          \* LoginRequest.totp_code: any string the client sends
    NoCode,         \* no code
    StepsOf,        \* for each account, the TOTP steps whose code a string is to pyotp
    MaxFailures,    \* settings.login_max_failures
    LockoutSeconds, \* settings.login_lockout_seconds
    ReplaySeconds,  \* TOTP_REPLAY_WINDOW_SECONDS
    StepSeconds,    \* the validity of one TOTP code
    MaxNow          \* bound on the clock

ASSUME RequestsAssumption == IsFiniteSet(Requests)

\* e-mail addresses differ in more than case: the guard's memory is keyed by
\* the lower-cased address, the table by the address itself.
ASSUME AddressAssumption ==
    /\ Accounts \subseteq Emails
    /\ Lower \in [Emails -> Emails]
    /\ \A a, b \in Accounts : Lower[a] = Lower[b] => a = b

\* A step has one code; pyotp compares it with the NFKC form of what was sent, so a
\* code has many spellings (full-width digits, for one), all of them of the same steps.
\* It may be the code of several steps; a wrong code is that of none.
ASSUME CodesAssumption ==
    /\ StepsOf \in [Accounts -> [Codes -> SUBSET Nat]]
    /\ \A a \in Accounts, c, d \in Codes :
         StepsOf[a][c] \cap StepsOf[a][d] # {} => StepsOf[a][c] = StepsOf[a][d]
    /\ NoCode \notin Codes

\* config.py: both settings are ge=1.  The replay memory outlives a code.
ASSUME LimitsAssumption ==
    /\ MaxFailures \in Nat \ {0}
    /\ LockoutSeconds \in Nat \ {0}
    /\ StepSeconds \in Nat \ {0}
    /\ ReplaySeconds \in Nat /\ ReplaySeconds >= StepSeconds
    /\ MaxNow \in Nat

VARIABLES
    now,        \* time.monotonic() and the TOTP clock, in seconds
    failures,   \* LoginGuard._failures
    usedTotp,   \* LoginGuard._used_totp
    req,        \* what each request has done so far
    accepted    \* history: <<account, code as spelled, step>> of this process's logins

vars == <<now, failures, usedTotp, req, accepted>>

Keys == Ips \X Emails

\* The current TOTP step.
Step == now \div StepSeconds

\* A missing dictionary entry: a stored count is never 0, a stored code never
\* NoCode.
NoFailures == [count |-> 0, start |-> 0]
NoUse == [code |-> NoCode, at |-> 0]

\* What the client sent, and how far the handler is with it.
Request == [phase : {"idle", "lookup", "blocked", "failed", "ok"},
            ip : Ips, email : Emails, code : Codes]

Key(ip, email) == <<ip, Lower[email]>>
KeyOf(r) == Key(req[r].ip, req[r].email)

\* The types of the variables; an entry without failures is no entry.
TypeOK ==
    /\ now \in Nat
    /\ failures \in [Keys -> [count : Nat, start : Nat]]
    /\ \A k \in Keys : failures[k].count = 0 => failures[k] = NoFailures
    /\ usedTotp \in [Emails -> [code : Codes \cup {NoCode}, at : Nat]]
    /\ req \in [Requests -> Request]
    /\ accepted \subseteq Accounts \X Codes \X Nat
----
(***************************************************************************)
(* LoginGuard.  Operators named Broken... or Forgetful... are variants of  *)
(* the one that follows them with a plausible bug; no specification uses   *)
(* them.                                                                   *)
(***************************************************************************)

BrokenWindowOver(k) == failures[k].count > 0 /\ now - failures[k].start >= LockoutSeconds

\* The failure window of a key has run out (is_locked and record_failure).
WindowOver(k) == failures[k].count > 0 /\ now - failures[k].start > LockoutSeconds

BrokenIsLocked(k) == ~WindowOver(k) /\ failures[k].count > MaxFailures

IsLocked(k) == ~WindowOver(k) /\ failures[k].count >= MaxFailures

BrokenPruned(k) == IF WindowOver(k) THEN [failures[k] EXCEPT !.count = 0] ELSE failures[k]

\* What is_locked leaves behind: it deletes an entry whose window has run out.
Pruned(k) == IF WindowOver(k) THEN NoFailures ELSE failures[k]

BrokenRecorded(k) ==
    [count |-> IF WindowOver(k) THEN 1 ELSE failures[k].count + 1, start |-> now]

\* The entry record_failure stores: a new window when there is none or the
\* old one has run out, otherwise one failure more in the same window.
Recorded(k) ==
    IF failures[k].count = 0 \/ WindowOver(k)
    THEN [count |-> 1, start |-> now]
    ELSE [failures[k] EXCEPT !.count = @ + 1]

\* The last accepted code of an address has been forgotten by now.
UseOver(e) == usedTotp[e] # NoUse /\ now - usedTotp[e].at > ReplaySeconds

\* What totp_is_replay leaves behind, and what it answers: it compares strings.
Remembered(e) == IF UseOver(e) THEN NoUse ELSE usedTotp[e]
IsReplay(e, c) == Remembered(e).code = c

BrokenCodeIsCurrent(account, c) == {Step - 1, Step} \cap StepsOf[account][c] # {}

\* pyotp.TOTP(secret).verify(code) with pyotp's default valid_window=0: in any
\* spelling, the code must be the one of the current step.
CodeIsCurrent(account, c) == Step \in StepsOf[account][c]
----
(***************************************************************************)
(* The handler.                                                            *)
(***************************************************************************)

Init ==
    /\ now = 0
    /\ failures = [k \in Keys |-> NoFailures]
    /\ usedTotp = [e \in Emails |-> NoUse]
    /\ req \in [Requests -> {[phase |-> "idle", ip |-> ip, email |-> e, code |-> c] :
                                ip \in Ips, e \in Emails, c \in Codes}]
    /\ accepted = {}

Enter(r, phase, ip, email, code) ==
    /\ req[r].phase # "lookup"
    /\ req' = [req EXCEPT ![r] =
                 [phase |-> phase, ip |-> ip, email |-> email, code |-> code]]

Answer(r, phase) ==
    /\ req[r].phase = "lookup"
    /\ req' = [req EXCEPT ![r].phase = phase]

\* A locked key is answered 429 before the database is asked.
Block(r, ip, email, code) ==
    /\ IsLocked(Key(ip, email))
    /\ Enter(r, "blocked", ip, email, code)
    /\ UNCHANGED <<now, failures, usedTotp, accepted>>

\* Otherwise the handler awaits the admin_users row.
Admit(r, ip, email, code) ==
    /\ ~IsLocked(Key(ip, email))
    /\ Enter(r, "lookup", ip, email, code)
    /\ failures' = [failures EXCEPT ![Key(ip, email)] = Pruned(Key(ip, email))]
    /\ UNCHANGED <<now, usedTotp, accepted>>

\* The query raises: the request ends in a 500 and no failure is recorded.
LookupFails(r) ==
    /\ Answer(r, "failed")
    /\ UNCHANGED <<now, failures, usedTotp, accepted>>

\* reject(): the failure is counted and the request answered 401.
Reject(r) ==
    /\ Answer(r, "failed")
    /\ failures' = [failures EXCEPT ![KeyOf(r)] = Recorded(KeyOf(r))]
    /\ UNCHANGED <<now, accepted>>

\* No such account, an inactive one, or a wrong password.
RejectCredentials(r) ==
    /\ Reject(r)
    /\ UNCHANGED usedTotp

\* Right credentials, but a code used before or not the current one.
RejectTotp(r) ==
    LET e == Lower[req[r].email]  c == req[r].code IN
    /\ req[r].email \in Accounts
    /\ IsReplay(e, c) \/ ~CodeIsCurrent(req[r].email, c)
    /\ Reject(r)
    /\ usedTotp' = [usedTotp EXCEPT ![e] = Remembered(e)]

ForgetfulAccept(r) ==
    LET e == Lower[req[r].email]  c == req[r].code IN
    /\ req[r].email \in Accounts
    /\ ~IsReplay(e, c) /\ CodeIsCurrent(req[r].email, c)
    /\ Answer(r, "ok")
    /\ usedTotp' = [usedTotp EXCEPT ![e] = Remembered(e)]
    /\ failures' = [failures EXCEPT ![KeyOf(r)] = NoFailures]
    /\ accepted' = accepted \cup {<<req[r].email, c, Step>>}
    /\ UNCHANGED now

\* mark_totp_used, reset, and the token is answered.
Accept(r) ==
    LET e == Lower[req[r].email]  c == req[r].code IN
    /\ req[r].email \in Accounts
    /\ ~IsReplay(e, c) /\ CodeIsCurrent(req[r].email, c)
    /\ Answer(r, "ok")
    /\ usedTotp' = [usedTotp EXCEPT ![e] = [code |-> c, at |-> now]]
    /\ failures' = [failures EXCEPT ![KeyOf(r)] = NoFailures]
    /\ accepted' = accepted \cup {<<req[r].email, c, Step>>}
    /\ UNCHANGED now

\* The process restarts: the guard is empty again and requests in progress are
\* gone.  The history starts over too: single use is promised per process.
Restart ==
    /\ failures' = [k \in Keys |-> NoFailures]
    /\ usedTotp' = [e \in Emails |-> NoUse]
    /\ req' = [r \in Requests |-> [req[r] EXCEPT !.phase = "idle"]]
    /\ accepted' = {}
    /\ UNCHANGED now

Tick ==
    /\ now < MaxNow
    /\ now' = now + 1
    /\ UNCHANGED <<failures, usedTotp, req, accepted>>

Begin(r) ==
    \E ip \in Ips, email \in Emails, code \in Codes :
        Block(r, ip, email, code) \/ Admit(r, ip, email, code)

Finish(r) == LookupFails(r) \/ RejectCredentials(r) \/ RejectTotp(r) \/ Accept(r)

Next == (\E r \in Requests : Begin(r) \/ Finish(r)) \/ Restart \/ Tick

Spec == Init /\ [][Next]_vars
----
(***************************************************************************)
(* Properties.                                                             *)
(***************************************************************************)

Awaiting(k) == {r \in Requests : req[r].phase = "lookup" /\ KeyOf(r) = k}

\* is_locked runs before the await and record_failure after it, so requests
\* admitted together can all fail.  The failures counted, with those still to
\* come, exceed the limit by no more than the requests in progress at once.
OvershootBounded ==
    \A k \in Keys :
        failures[k].count + Cardinality(Awaiting(k)) <= MaxFailures - 1 + Cardinality(Requests)

\* While a step lasts in which an account has logged in, the guard remembers a code
\* accepted for it in that very step: the single slot per address never goes back to
\* an older code, nor is it emptied, by any other request or by time.
AcceptedCodeRemembered ==
    \A p \in accepted :
        p[3] = Step => <<p[1], Remembered(Lower[p[1]]).code, Step>> \in accepted

\* A string that has logged the account in logs it in again within the step only after
\* another spelling of the code did: the slot holds one spelling (login_guard.py:53-59).
ReuseNeedsRespelling ==
    [][\A r \in Requests :
         LET a == req[r].email  c == req[r].code IN
         req[r].phase = "lookup" /\ req'[r].phase = "ok" /\ <<a, c, Step>> \in accepted
         => \E d \in Codes :
              d # c /\ StepsOf[a][d] = StepsOf[a][c] /\ <<a, d, Step>> \in accepted]_vars

\* "TOTP codes are single-use: a code accepted once is rejected for the rest of its
\* validity window" (docs/API_CONTRACTS.md:78): an account logs in at most once a step.
TotpSingleUse ==
    [][\A r \in Requests :
         req[r].phase = "lookup" /\ req'[r].phase = "ok"
         => \A p \in accepted : ~(p[1] = req[r].email /\ p[3] = Step)]_vars

\* The window is fixed: failures of requests admitted before the lockout engaged
\* neither prolong it nor shorten it.
LockoutIsFixedWindow ==
    [][\A k \in Keys :
         IsLocked(k) /\ IsLocked(k)' => failures'[k].start = failures[k].start]_vars

\* A lockout ends when its window has run out, when the process restarts, or
\* when a request of the same key, admitted before the lockout, logs in.
LockoutHolds ==
    [][\A k \in Keys :
         IsLocked(k) /\ ~IsLocked(k)'
         => \/ now' - failures[k].start > LockoutSeconds
            \/ Restart
            \/ \E r \in Requests : req[r].phase = "lookup" /\ req'[r].phase = "ok" /\ KeyOf(r) = k]_vars
====
