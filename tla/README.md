# event-admin: specifications, model checks and proofs

event-admin is the backend of an admin panel for bookings: a FastAPI service,
one process, one asyncio event loop. It owns little data. It reads the bookings
that event-saver writes, proxies event-users and event-notifier, sends commands
to event-receiver as CloudEvents, and writes one table, the booking blacklist.
What can go wrong in it happens between two `await`s: another request, a change
in another service, a lost answer or a restart. These modules model that.

Paths are relative to the repository; `routes.py`, `adapters/...` and
`services/...` are under `event_admin/`.

## 1. Inventory

| Component | State | Operations | Hard behaviour | What makes it correct |
|---|---|---|---|---|
| Admin login, `LoginGuard` (`routes.py` login, `services/login_guard.py`) | failures per IP and address, last TOTP code per address, both in memory | login; expiry on access; restart forgets | check before the await, update after it; late failures; several codes and one memory slot | a code works once as it was spelled; a lockout holds and its window is fixed; overshoot is bounded |
| Event publisher (`adapters/event_publisher.py`) | none but the call in progress | post, retry on transport errors, raise | an answer may be lost while the command is applied; late delivery; crash | success means accepted unless the answer was a 3xx; the end is final; every call ends |
| Users cache and client (`services/users_cache.py`, `adapters/users_client.py`) | two TTL dictionaries | lookup by id, batch, list; invalidation webhook | fetches in flight across an invalidation, answers out of order, hits kept across an await | bounded staleness; only a fetch in flight survives an invalidation |
| Booking blacklist (`routes.py`, `adapters/blacklist_db.py`) | table `blacklist_entries` | create, patch, delete; the list is under booking queries | PATCH reads and validates, then writes in a second statement | lower-cased e-mails, ordered windows, omitted columns untouched |
| Admin commands (`routes.py`: reassign-client, send-client-reminder, change-email) | none | check, then publish | checked facts are stale when the event is published; repeating a command after a 502 | commands carry what was checked; no command from a failed check |
| Booking queries (`adapters/bookings_db.py`, `adapters/shortener_client.py`) | none; reads nine tables | list, details with click counts, bounced; `GET /blacklist` alike | details are up to nine statements without a common snapshot; counts arrive in any order; lists are paged by offset while rows move | no item of another booking; every summary in its history; every count beside its link; no page loses or repeats a row that nothing overtook |
| Authentication gate (`middleware.py`, `auth.py`) | none; tokens, held by clients | mint, decode, public paths, admin role | a token outlives its account; restarts with other settings | access ends in bounded time; a restart ends only the sessions it must |
| Sessions and pool (`ioc.py`, `adapters/sql.py`) | up to 30 connections | checkout on first statement, return at the end of the request | connections held while other services are awaited; PostgreSQL restarts | every path gives its connection back; an outage passes; nothing but PostgreSQL holds a request up |
| Configuration (`config.py`) | read once at start-up | - | restarts with other settings | see the gate |
| Notifier client, telemetry, metrics, schemas | none | pass-through | none | - |

Interactions. Login, the blacklist and the booking queries use the database. The
commands read bookings, resolve users through the users client and end in
`publish`. event-users calls the invalidation webhook after a change;
event-booking reads the effective blacklist values. No two components share
state except the users cache (commands, proxies, webhook) and the pool.

## 2. Modules

| Module | Models | Role |
|---|---|---|
| `Login` | login route and `LoginGuard` | specification |
| `Publication` | what publishing promises its caller | abstract specification |
| `EventPublisher` | `publish` and its retry loop | specification, implements `Publication` |
| `UsersCache` | the cache, the calls that use it, the webhook | specification |
| `Blacklist` | the admin routes over the table | specification |
| `AdminCommands` | reassign-client, send-client-reminder, change-email | specification, composed with `Publication` |
| `BookingDetails` | `get_booking_details` and what is made of it | specification |
| `Listings` | the three paged lists and a client that walks one | specification |
| `Sessions` | accounts, tokens and the gate around `Login` | composition, implements `Login` |
| `ConnectionPool` | sessions, the pool, PostgreSQL and the shapes of the handlers | specification |
| `MC...` (+ `.cfg`) | small instances for TLC | model checking |
| `Sessions_proofs` (with those about `Login`), `EventPublisher_proofs`, `UsersCache_proofs`, `Blacklist_proofs`, `AdminCommands_proofs`, `BookingDetails_proofs`, `ConnectionPool_proofs`, `Listings_proofs` | the theorems | TLAPS |

Operators named `Broken...`, `Unchecked...` and so on are variants with a
plausible bug; each module says which. Substituting one for the operator that
follows it makes TLC report the property it belongs to (`PROJECT.json`,
"mutants"). No specification uses them.

### Login

A request is two steps because the handler has one `await`, the database lookup
(`routes.py:211`): `Admit` or `Block` before it, one of `LookupFails`,
`RejectCredentials`, `RejectTotp`, `Accept` after it. `failures` and `usedTotp`
are the guard's dictionaries; a missing key is `NoFailures` or `NoUse`, and the
deletions that `is_locked` and `totp_is_replay` make on an expired entry are
`Pruned` and `Remembered`. `Tick` is the clock, `Restart` a new process.
A code is the string the client sent, as the guard compares it
(`login_guard.py:59`); `StepsOf` says of which 30-second steps it is the code to
pyotp, which takes the current step only and compares NFKC forms, so that several
strings can be one code, and one string the code of several steps. `accepted` is
history: account, string and step of each login. Time is counted in seconds and
both clocks (monotonic for the guard, wall clock for TOTP) advance together.

### EventPublisher and Publication

`call` is the position of each call of `publish`, `wire` the attempts that may
still reach event-receiver, `reply` the answer to a call's latest attempt (after the
call has ended, history), `applied` what event-receiver accepted. Statuses are
classes: 2xx, 3xx (`redirect`, which httpx does not follow), errors. `TransportFailure` is a failed connection or the httpx
timeout, at any time, whatever became of the request: the attempt stays on the
wire, or has been applied. `Respond` is an answer in time; `Crash` a stopped
process. A message that is never received is lost. `event-receiver` is external
and assumed to accept an event only when it answers 2xx. `Publication` says what
a caller can rely on: returned implies applied, unless the call was redirected, which
its caller cannot see; every call ends; raised implies nothing. The refinement maps the phases with `Outcome` and forgets which attempt
was applied.

### UsersCache

An item is a user (one key of `_user_cache`) or a list query (one key of
`_list_cache`). `version` counts the changes of what event-users says of it. A
call is `Start` (hits are taken, expired entries deleted, the rest asked for),
`Answer` (event-users reads), `Return` (stored and returned) or `Fail`;
`get_user`, `get_users_by_ids` and `list_users` are the cases of one user, many
users and one list. A changed user changes all lists. `replaced`, `cleared` and
an entry's `crossed` are history. A fetch is assumed to end, by its timeout if
need be, within `FetchSeconds`: `Tick` does not let time pass beyond it.

### Blacklist

`Create` and `Delete` are one committed statement. PATCH is `ReadPatch`
(`get_entry` and the validation against it) and `WritePatch` (`UPDATE ... WHERE
id`, a 404 if the row is gone), because the two statements run in a READ
COMMITTED transaction without a lock; `LosePatch` is a failure between them.
`Updates` translates what `update_blacklist_entry` sends to the database,
including the value it adds for a `client_email` entry. `fresh` (no other request
has written the entry since this PATCH read it) and `raced` (a PATCH wrote an
entry that was no longer what it had read) are history. Ids are never reused
(UUIDs). `is_active` and `comment` are left out: they are stored as sent.

### AdminCommands

A request goes from await to await: `ReadBooking` and `CheckBooking` (the first
statement of `get_booking_details` and its return), `UserAnswers` (`get_user`),
`Identify` and `Decide` (event-users looks up the address; its answer arrives), and
then `publish`, which is `Publication`'s `Call`, `Apply`, `Return`, `Redirect` and `Raise`:
`AdminCommands` relies on the abstract specification that `EventPublisher`
implements and not on the retry loop. `GetUser` is a hit in the users cache or an
await. `had`, every address a user has had, stands for what the cache may hold: how
old that can be is the subject of `UsersCache`, and what is shown here holds for a
cache of any age. `Accept` and `Forget` are event-receiver, which drops a payload
identical to one of the last ten minutes (`docs/API_CONTRACTS.md:264`); `ChangeUser`
and `ChangeBooking` are other services and other admins; `UsersFail`,
`DatabaseFails` and `Crash` end requests. `facts` is history: what was true of users,
addresses and bookings at some time since the request began. So `CommandsRestOnFacts`
and `RefusalsRestOnFacts` are about the checks and the spelling of what is looked up,
and not about two races the code leaves open: two requests may both find an address
free and both publish, and a booking may change between its read and the publish.

Taken as given: event-users keeps addresses in lower case and unique among clients;
`requested_by` is one admin; bookings are never deleted. `client_has_no_account` is
never answered, because a booking without a client id has no participant
(`bookings_db.py:472`) and is refused before.

### BookingDetails

One request, since requests that only read do not affect each other. `ReadBooking` and
`ReadTable` are the statements in their order, each of which sees what is committed
when it runs; `Assemble` builds the result; `Count` is the answer of event-shortener
for one link, of which all are awaited together; `Fail` is a failed statement or an
answer of event-shortener that cannot be read. Lists are sets, because no property is
about their order: a participant has one link in a booking
(`uq_bml_booking_ref_id_user_id`), so `MeetingUrl` does not depend on it either.
`before`, `seen` and `clicked` are history. The writers are external. They are assumed
to number rows in the order of their creation and to write a summary (the booking's
organizer, a notification's last status) in one transaction with the history row it
summarises; without that no order of the statements could make the two agree.

### Listings

`list` says which of the three lists is walked. A row is its sort key and `hits`: how
many of a booking's notifications bounced, or whether the row passes the filters.
`Selected` is WHERE, `Items` GROUP BY, `Precedes` ORDER BY; where ORDER BY leaves two rows
open, `Pages` has every page PostgreSQL may return. The client asks from offset 0 until a
page is not full (`ReadPage`, before it `Count` for the blacklist, whose total is a
statement of its own) and then starts over. `Seen` and `Bounce` are event-saver, `Edit` an
admin. `stayed`, `overtook` and `tied` are history and follow the documented order
(`Ahead`), not the query.

### Sessions

`Sessions` extends `Login`: every step is a step of `Login` or leaves its variables alone
(theorem `LoginIsImplemented`). It splits the handler's await in two, `ReadRow` and
`Grant` or `Refuse`, so that an account can change after its row was read. `session` is one
token that was answered, any one, since tokens do not affect each other; it holds what
`create_access_token` writes. `Gate` is `_handle` and `require_admin`. `Reconfigure` is
`Login`'s `Restart` with other settings: the audience, the issuer, and the secret, which
stands for the key together with the algorithm (`jwt_secret`, `jwt_algorithm`): a token
passes only if both are those it was signed with.
`AnswerSeconds` bounds the time from the read of a row to the answer; the code has no such
bound (bcrypt and the event loop's load decide), which is why it is a constant of its own.
`minted` and `lastAdmin` are history.

### ConnectionPool

A handler is the sequence of what it awaits (`Shapes`): a statement that keeps the
connection, one that commits and so returns it, a call to another service. `Take` is
checkout from SQLAlchemy's queue, `GiveUp` its timeout (the default, thirty seconds),
`Connect` pre-ping, `Close` the end of the container's scope, after the response. A
connection is known by the number of outages before it was opened, so a broken one is one
from before the last. `Stop` and `Start` are PostgreSQL. Taken as given: a request that
closes its session returns its connection in one step; statements are one step, which
either returns or finds its connection broken.

## 3. Runs

| Run | Expect | Instance | Shows |
|---|---|---|---|
| `login` | pass | 2 requests, 1 account and a second spelling of it, 2 codes of which one has 2 spellings, limit 2, lockout 2 s, step 3 s, replay memory 4 s, clock to 6 | `OvershootBounded`, `AcceptedCodeRemembered`, `ReuseNeedsRespelling`, `LockoutIsFixedWindow`, `LockoutHolds` |
| `login_respelled` | violation | the same with 1 request | a code logs in twice in its step, spelled in two ways |
| `publisher` | pass | 2 publishes, 3 attempts, 2xx, 3xx and errors | `RefusedAttemptNotApplied`, `PublishedWasAnswered`, `EndedIsFinal`, `KeepsPromise` |
| `publisher_raised` | violation | 1 publish, 2 attempts | a 502 does not mean "NOT applied" |
| `users_cache` | pass | 2 users, 1 list, 2 calls, TTL 1 s, fetch up to 1 s, 1 change per item, clock to 4 | `EntryStalenessBounded`, `ReturnStalenessBounded`, `InvalidationRespected` |
| `blacklist` | pass | 2 entries, 2 PATCHes, 2 fields, 2 spellings and a blank, 2 instants | `EmailsLowercased`, `WindowsCanOpen`, `OmittedUntouched`, `OnlySentWritten` |
| `blacklist_omitted` | violation | 1 entry, 2 PATCHes | a PATCH undoes a concurrent change of a value it was not sent |
| `commands` | pass | 2 requests of any kind, 2 clients, 2 addresses, one typed in capitals, 1 booking, 1 change | `CommandsRestOnFacts`, `RefusalsRestOnFacts`, `RemindersNotSuppressed` |
| `details` | pass | 1 request, 2 bookings, 2 users, 2 URLs, 3 writes or clicks | `DetailsComplete`, `LastStatusInHistory`, `OrganizerInHistory`, `ReminderLinkIsRight`, `CountsAreOwn` |
| `sessions` | pass | 1 login at a time, 1 account, 3 settings, tokens of 2 s, rows answered within 1 s, 1 change, clock to 4 | `AccessEndsInTime`, `SessionsSurvive` |
| `pool` | pass | 3 requests, 2 connections, 2 outages | `OutagesPass`, `RefusedOnlyByOthers`, `OnlyPostgresHoldsUp` |
| `lists` | pass | each list, 3 rows, pages of 2, 2 changes, clock to 2 | `WalkShowsWhatStays`, `TotalFits` |

Every passing run also checks its module's type invariant.

Why the bounds are enough. Every hazard listed in `PROJECT.json` is a race of
two parties, so two requests, calls or PATCHes meet it, and a third repeats it.
In `login` two failures reach the limit, so the third and fourth are the late
ones, and the clock runs through two code steps, one full lockout, and the end of
the replay memory. Two spellings are one more than the slot holds, and the code of the
first step comes back in the third, while the memory of it may still last. Three attempts give a first, a middle and a last one. In `users_cache` one TTL and two fetches fit under the clock's
bound twice over, which is what the staleness bound needs; one change per item
already separates stale from current. Two instants make every shape of a window,
inverted ones included. In `commands` one change is enough to make every fact a
request has checked stale, and two requests to meet each other in event-receiver's
window; an organizer, whose only role is to be refused, is left to
the proofs. In `details` three writes make a row and
change it during the request, or two participants' links and a new URL. In `sessions` a
token can outlive the account it was minted for by exactly what the property allows, and be
refused before the clock's bound; one account is enough because no step relates two. In
`pool` three requests for two connections have one that waits, and of two connections one
is too many to be kept; two outages make a connection older than the last but one. In
`lists` three rows make a full and a short page, and two changes take a row from under the
second and push one onto it. The proofs of section 5 then lift most of this to any
size. The bounds (`MaxNow`, `MaxVersion`, `MaxChanges`) stand in the guards of `Tick`, `Change`,
`ChangeUser`, `ChangeBooking` and `ChangeAccount` and limit no other action, as do `MaxClock`
and `MaxOutages`.

Deadlock is checked for `login`, `users_cache`, `sessions`, `pool` and `lists`. The publishes, blacklist ids, commands and the
details request of an instance are used up, after which the system stops: those
configurations say `CHECK_DEADLOCK FALSE`. Symmetry is used where the slots and users are interchangeable
and only safety is checked.

Fairness. The publisher and the pool have liveness. The publisher's `Fairness` asks that a call waiting
for an answer gets one or a transport failure (httpx is built with
`timeout=event_publish_timeout_seconds`, `ioc.py:144-147`) and that a backoff ends
(`wait_exponential(max=2)`, `event_publisher.py:102`). Nothing is assumed of
event-receiver or the network, and a crash may come at any time. `KeepsPromise` includes
`Publication`'s fairness, that a call in progress returns, is redirected or raises.
The pool's `Fairness` asks that a wait for a connection ends, one way or the other (the
pool's timeout), that a call to another service ends (httpx's default timeout, and
`ioc.py:144-147`), and that the event loop sends a response and closes a container. It asks
nothing of PostgreSQL: asyncpg has no command timeout here and `create_async_engine` sets
none, so a request may hang in a statement, and `OnlyPostgresHoldsUp` says that it hangs
nowhere else.

## 4. Disagreements between code and documents

1. `publisher_raised`: "the action was NOT applied" (`main.py:43`) is not known
   after a timeout. A repeated command may be a second one.
2. `blacklist_omitted`: every PATCH of a `client_email` entry writes its value
   back (`routes.py:659`), not only one that switches the field; a concurrent
   change of the value is lost.
3. `login_respelled`: "a code accepted once is rejected for the rest of its validity
   window" (`docs/API_CONTRACTS.md:78`) holds only as long as nobody spells it differently. The guard
   compares strings, pyotp NFKC forms, and `totp_code` is any string
   (`schemas/auth.py:7`): the code just used passes again in full-width digits, and then
   once more as it was. `ReuseNeedsRespelling` says that this is the only way.

Without a run of their own, because a step, the source or a race shown above is enough:

- "non-2xx is raised" (`event_publisher.py:26-27`), but only statuses from 400 are
  (line 77): a 3xx, which httpx does not follow, is a success that accepted nothing, and
  the admin is answered 202. `PublishedWasAnswered` and `Publication` (`Redirect`) say so.
- "active_from must not be after active_until" (`routes.py:567`,
  `docs/API_CONTRACTS.md:405`): by the race of `blacklist_omitted`, validation against a
  stale read, two PATCHes that each move one bound invert a window (`routes.py:662`), as
  one PATCH at a time cannot (`OnePatchKeepsWindows`). By the same race a switch to
  `client_email` and a concurrent new value can leave an address that is not lowercased.
  `EveryWindowCanOpen` as an INVARIANT of `MCBlacklist_omitted.cfg`, in place of its
  PROPERTY, shows the trace.
- The reminder's address is "always current" (`docs/API_CONTRACTS.md:273`,
  `routes.py:356`), but comes from the cache (`routes.py:389`). `ReturnStalenessBounded`
  says how old it can be.
- "New email is the same as current email" (`routes.py:497`,
  `docs/API_CONTRACTS.md:346`): the address compared may come from the cache too. From
  the same stale address a change can be refused as "in use by another client"
  (`routes.py:504`) although the client who has it is the one named.
- `get_click_count` promises "None on any failure" (`adapters/shortener_client.py:17`;
  "never fails the booking detail response", `docs/API_CONTRACTS.md:226`), but
  `response.json()` at line 29 raises for a 200 with another body, and the details end in
  a 500 (`Fail` of `BookingDetails`).
- `/ready` answers 503 for "database unreachable" (`routes.py:166`,
  `docs/API_CONTRACTS.md:43`) also when the database is up and the pool is exhausted
  (`GiveUp` of `ConnectionPool`).
- An exhausted pool means "500 errors on all endpoints" (`docs/DEPENDENCIES.md:61`), but
  the proxies, change-email, the webhook, `/health` and logout use no connection (the
  shapes without a statement), and `/ready` answers 503.
- `GET /bookings` is ordered by `last_seen_at` alone (`bookings_db.py:79`): bookings seen
  at the same instant may change places between two pages, and only those may
  (`PagesAreDetermined`).
- CORS allows "what the SPA actually uses" (`main.py:89-93`), without PUT, which
  `PUT /api/notifications/config` needs.

The comment at `services/login_guard.py:14` is wrong about pyotp: the default
window accepts the current step only. `ReuseNeedsRespelling` depends on it:
with neighbouring steps accepted, the single memory slot would let the older of two
valid codes be used again (the mutant of `CodeIsCurrent` shows it).

## 5. Proofs

All theorems are about every value of the constants under the assumptions the
modules name. `tlapm` checks them to the last leaf.

`Sessions_proofs`, first part, about `Login` (any requests, addresses, limits, times):
- `TypeCorrect`: `TypeOK` is inductive by itself.
- `OvershootIsBounded`: `OvershootBounded` counts the failures of a key together
  with the requests admitted for it and is inductive with `TypeOK`: admission
  needs a count below the limit, and every later failure uses up an admission.
- `AcceptedCodesAreRemembered`, `ReuseIsRespelled`: all strings current at one time are
  spellings of one code. The invariant `ReplayInv` says that in a step in which an
  account has logged in the slot holds a string accepted in that step, and a slot
  outlives the step (`MemoryOutlivesStep`). So a string that is accepted again was
  pushed out of the slot by another one of the same step, its respelling.
- `LockoutWindowIsFixed`, `LockoutIsHeld`: from what each action does to a locked
  key (`LockedKeyStep`).
- Assumptions: no two accounts differ only in case (`AddressAssumption`; the
  guard lower-cases, the query does not), strings that are a code of one step in
  common are so of all (`CodesAssumption`), the replay memory is at least one code
  step, one clock.

`EventPublisher_proofs` (any publishes, attempts):
- `TypeCorrect`, `RefusalIsExact`: from `Inv`, `TypeOK` with the facts that an
  answer under way, or a refusal that ended a call, settles the latest attempt.
- `PublishedIsAnswered` and `PublisherKeepsPromise` (every step of the publisher is
  a step or a stutter of `Publication`), whatever event-receiver answers.
- `EndIsFinal`: what has ended posts no more. `FirstRefusalIsTrue`: when the 502's "the
  action was NOT applied" can be relied on after all, namely after a refusal of the first
  attempt; any other way to a 502 leaves an attempt whose fate is unknown.
- `PublishesRunOut`: every step of a call lowers the number of steps it has left
  (`StepsLeft`), whatever event-receiver and the network do.

`Blacklist_proofs` (any entries, values, bodies, number of PATCHes):
- `TypeCorrect`, `EmailsAreLowercased`, `WindowsOpen`, `OmittedIsUntouched`,
  `OnlySentIsWritten`. The invariant adds to the properties what a pending PATCH
  knows: as long as the entry is as it read it, its update merged into the entry is
  lowercased and its window ordered (`StillValid`) and a value written unasked is the stored
  one (`StillSame`). A write by another request ends both, and the entry counts as
  raced from then on if the PATCH goes ahead.
- `OnePatchKeepsWindows`, `OnePatchKeepsEmails`, `OnePatchLeavesOmitted`: if no two
  PATCHes overlap (`OnePatch`: one slot, used again and again), entries created and
  deleted beside a PATCH do no harm, and what two overlapping PATCHes break, as the run
  `blacklist_omitted` shows, holds without exception. The overlap is the only cause; a
  row lock (`SELECT ... FOR UPDATE`) in `get_entry` would remove it.

`UsersCache_proofs` (any users, queries, calls, TTL, fetch time):
- `TypeCorrect`, `EntryStalenessIsBounded`, `InvalidationIsRespected`,
  `ReturnStalenessIsBounded`. The invariant dates what is under way: an answer was
  current after its call began, which is at most one fetch ago (`Recent`,
  `CallsBounded`); an entry was current at most a fetch before it was stored
  (`EntriesRecent`); a hit kept by a batch at most the TTL and a fetch before the call.
  For invalidation, an answer the webhook has not crossed is as new as the webhook's
  last run (`AnswersUncrossed`).
- Assumption: a fetch ends within `FetchSeconds`, and one clock.

`AdminCommands_proofs` (any users, addresses, spellings, bookings, requests, changes):
- `TypeCorrect`, `CommandsAreGrounded`, `RefusalsAreGrounded`, `RemindersGetThrough`.
  The invariant says of each request alone that what it knows was true since it began
  (`Sound`: the row it read, the holder it was told of), and that a waiting request's
  facts include the present (`Observed`), so that whatever it reads next is among them.
  Nothing relates two requests: that is why any number of them is no harder.
- `PublicationIsRespected`: what the composition does to the publication is what
  `Publication` allows, so that what `EventPublisher` implements is all the routes need.
  `CommandsAreFixed`: a command handed to `publish` does not change, so that every
  attempt carries what was checked. `AcceptedIsPassedOn`: whatever event-receiver has
  accepted, it has passed on a command with that payload; the invariant says the same of
  every payload in its window.

`BookingDetails_proofs` (any tables, writes, links):
- `TypeCorrect`, `DetailsAreComplete`, `LastStatusesAreInHistory`,
  `OrganizersAreInHistory`, `ReminderLinksAreRight`, `CountsGoToTheirLinks`. The invariant
  says what the writers keep (`World`: ids in order, one link per participant, every
  summary in its history), that no row there was when the request began is lost and that
  all the request could have seen is remembered (`HistoryOK`), how far the request can be
  (`RequestOK`), that each table read is complete and agrees with those read before it
  (`ReadOK`), and where a count may stand (`CountsOK`). No theorem fixes the order of the
  writes: whatever runs between two statements, the order of the statements is enough.

`Sessions_proofs`, second part (any accounts, settings, restarts, times):
- `LoginIsImplemented`: `SessionSpec` implies `Login`'s `Spec`, step by step;
  `GuardHoldsInSessions` carries the theorems about `Login` over, without a new argument.
- `SessionTypeCorrect`, `AccessIsBounded`, `RestartsKeepSessions`. For access the
  invariant says that an account that is an admin now is recorded as one now, that a row a
  login holds and that says admin was so at the time it was read, and that a token expires
  within its lifetime of a time at most `AnswerSeconds` after its account was one.

`ConnectionPool_proofs` (any number of requests, sizes, outages):
- `TypeCorrect`, `OutagesDoPass`, `RefusalsNeedOthers`. The invariant adds who may hold
  a connection (a request in progress), that one in use is from after the last outage or
  its request has met the outage, and that a failed request has.
- `RequestsRunOut`: a request in progress has at most ten steps left, only its own steps
  move it, and each of them lowers that number: no handler is sent round in circles.
- Assumption: finitely many requests.

`Listings_proofs` (any rows, page size, changes, and all three lists):
- `TypeCorrect`, `WalksShowWhatStays`, `TotalsFit`. The argument counts. The rank of a row
  is the number of rows ahead of it; a page holds the ranks from its offset on
  (`PageRank`), in whatever order PostgreSQL returns rows that ORDER BY does not part. A
  row that nothing left ahead of can only move back, one that nothing came ahead of can
  only move up (`RememberedRanks`). So the invariant (`WalkInv`) can say that a row not
  yet shown and not overtaken is at the offset or behind it, and a row shown once and not
  overtaken is before it. `TotalInv` says that a total is current until the list changes.
- `QuietWalksAreExact`: a walk shows a row that nothing overtook exactly once.
- `WalksRunOut`: a walk that goes on has had full pages only, so rows that keep coming
  ahead of the client do not hold it up for ever.
- `PagesAreDetermined`: where ORDER BY gives every row a place, a page is determined by
  the table and shares no row with the next. The lists with a tie-break always satisfy
  this, `GET /bookings` only while no two bookings were last seen at one instant.
- Assumption: finitely many rows, numbered.

Only model-checked, because liveness is out of the prover's reach: that a publish ends
(the fairness part of `KeepsPromise`) and that nothing but PostgreSQL holds a request up
(`OnlyPostgresHoldsUp`). What fairness does not give is proved: `PublishesRunOut` and
`RequestsRunOut` bound the number of steps, so only a wait could go on for ever. Every
other property of a passing run is a theorem.

## 6. Plan

Done, in this order: `Login`, `Publication` and `EventPublisher`, `UsersCache`,
`Blacklist`, `AdminCommands`, `BookingDetails`, `Sessions`, `ConnectionPool`, `Listings`,
and the proofs of all of them. Next:
1. `EventPublisher` in place of `Publication` under `AdminCommands`: `PublicationIsRespected`
   and `PublisherKeepsPromise` together say that nothing about the
   routes is lost; the composition itself would put the ten-minute window of
   event-receiver beside the retries of one event.
2. What the invariants of `UsersCache` say of the age of an address carried into
   `AdminCommands`, which so far holds for a cache of any age.

Considered and left out: an abstract specification of `LoginGuard`, whose action properties
(`LockoutIsFixedWindow`, `LockoutHolds`, `ReuseNeedsRespelling`) already are one; and the pool
beneath the other modules, whose `LookupFails`, `DatabaseFails` and `Fail` may happen at any
time and so include whatever `ConnectionPool` does.

## 7. Not modelled

The notifier client passes one call through; `list_active_values` is one statement
that changes nothing; `validate_secret_strength` checks strings before anything runs; telemetry, logging, metrics and
response schemas change no state another part reads; the ORM models are for
reference, the queries are raw SQL. The growth of the in-memory dictionaries,
which lose an entry only when its key is asked for again, has no bound to state.
Bcrypt, JWT signatures, Unicode normalisation and the arithmetic of TOTP codes are taken
as given: of a code `StepsOf` says what pyotp makes of it.
