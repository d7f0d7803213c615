---- MODULE UsersCache ----
(***************************************************************************)
(* The in-process cache of event-users answers (services/users_cache.py)   *)
(* and the calls of UsersClient that read and fill it                      *)
(* (adapters/users_client.py).  A call that misses awaits event-users;     *)
(* other calls, changes at event-users and the invalidation webhook run    *)
(* while it waits.                                                         *)
(***************************************************************************)
EXTENDS Integers

CONSTANTS
    Users,         \* users known to event-users
    Lists,         \* the queries of list_users: filters and page
    Calls,         \* slots for UsersClient calls in progress
    Ttl,           \* settings.users_cache_ttl_seconds
    FetchSeconds,  \* a fetch has ended, or failed by timeout, after this long
    MaxVersion,    \* bound on the changes at event-users
    MaxNow         \* bound on the clock

ASSUME TimesAssumption ==
    /\ Ttl \in Nat /\ FetchSeconds \in Nat
    /\ MaxVersion \in Nat /\ MaxNow \in Nat

VARIABLES
    now,       \* time.monotonic()
    version,   \* event-users: how often the answer about each item has changed
    replaced,  \* history: when each version of an item was replaced
    cleared,   \* history: the versions when the webhook last ran
    cache,     \* UsersCache._user_cache and _list_cache
    call       \* the calls of UsersClient

vars == <<now, version, replaced, cleared, cache, call>>

\* What the cache has a key for.
Items == Users \cup Lists
Versions == 0 .. MaxVersion

\* A cache entry: the version it holds and when it was stored.  "crossed" is
\* history: the webhook ran while the entry's fetch was under way.
Entry == [version : Versions, at : Nat, crossed : BOOLEAN]
NoEntry == [version |-> -1, at |-> 0, crossed |-> FALSE]

\* A call: the items it found in the cache, then all it returns ("data"), those
\* it asks event-users for ("missing"), and what event-users answered.
IdleCall == [phase |-> "idle", missing |-> {}, data |-> {}, answer |-> {},
             since |-> 0, crossed |-> FALSE]
Call == [phase : {"idle", "asked", "answered", "returned"}, missing : SUBSET Items,
         data : SUBSET (Items \X Versions), answer : SUBSET (Items \X Versions),
         since : Nat, crossed : BOOLEAN]

Awaiting(c) == call[c].phase \in {"asked", "answered"}

\* The types of the variables; nothing is held that event-users never said.
TypeOK ==
    /\ now \in Nat
    /\ version \in [Items -> Versions]
    /\ replaced \in [Items -> [Versions -> Nat]]
    /\ cleared \in [Items -> Versions]
    /\ cache \in [Items -> Entry \cup {NoEntry}]
    /\ \A i \in Items : cache[i] # NoEntry => cache[i].at <= now /\ cache[i].version <= version[i]
    /\ call \in [Calls -> Call]
    /\ \A c \in Calls : {a[1] : a \in call[c].answer} \subseteq call[c].missing
----
(***************************************************************************)
(* UsersCache.                                                             *)
(***************************************************************************)

\* Operators named Unexpiring..., Deadline..., UsersOnly... and Restoring... are
\* variants of the one that follows them with a plausible bug; no specification
\* uses them.

UnexpiringHit(i) == cache[i] # NoEntry

\* get_user and get_list: an entry is a hit until it is older than the TTL.
Hit(i) == cache[i] # NoEntry /\ now - cache[i].at <= Ttl

DeadlineStored(c, v) == [version |-> v, at |-> now + Ttl, crossed |-> call[c].crossed]

\* set_user and set_list with the version v that call c fetched.
Stored(c, v) == [version |-> v, at |-> now, crossed |-> call[c].crossed]

UsersOnlyInvalidate ==
    /\ cache' = [i \in Items |-> IF i \in Users THEN NoEntry ELSE cache[i]]
    /\ cleared' = version
    /\ call' = [c \in Calls |-> [call[c] EXCEPT !.crossed = Awaiting(c)]]
    /\ UNCHANGED <<now, version, replaced>>

\* POST /api/users/cache/invalidate with the right token: both caches are emptied.
Invalidate ==
    /\ cache' = [i \in Items |-> NoEntry]
    /\ cleared' = version
    /\ call' = [c \in Calls |-> [call[c] EXCEPT !.crossed = Awaiting(c)]]
    /\ UNCHANGED <<now, version, replaced>>
----
(***************************************************************************)
(* UsersClient.                                                            *)
(***************************************************************************)

Init ==
    /\ now = 0
    /\ version = [i \in Items |-> 0]
    /\ replaced = [i \in Items |-> [v \in Versions |-> 0]]
    /\ cleared = version
    /\ cache = [i \in Items |-> NoEntry]
    /\ call = [c \in Calls |-> IdleCall]

\* get_user, get_users_by_ids or list_users starts: hits are taken from the cache,
\* expired entries deleted, and event-users is asked for the rest, if any.
Start(c, items) ==
    LET hits == {i \in items : Hit(i)} IN
    /\ call[c].phase = "idle"
    /\ call' = [call EXCEPT ![c] =
         [IdleCall EXCEPT !.phase   = IF hits = items THEN "returned" ELSE "asked",
                          !.missing = items \ hits,
                          !.data    = {<<i, cache[i].version>> : i \in hits},
                          !.since   = IF hits = items THEN 0 ELSE now]]
    /\ cache' = [i \in Items |-> IF i \in items \ hits THEN NoEntry ELSE cache[i]]
    /\ UNCHANGED <<now, version, replaced, cleared>>

GetUsers(c) == \E ids \in SUBSET Users \ {{}} : Start(c, ids)
ListUsers(c) == \E list \in Lists : Start(c, {list})

\* event-users reads its tables and answers.
Answer(c) ==
    /\ call[c].phase = "asked"
    /\ call' = [call EXCEPT ![c].phase = "answered",
                            ![c].answer = {<<i, version[i]>> : i \in call[c].missing}]
    /\ UNCHANGED <<now, version, replaced, cleared, cache>>

RestoringReturn(c) ==
    LET all == call[c].data \cup call[c].answer IN
    /\ call[c].phase = "answered"
    /\ call' = [call EXCEPT ![c] = [IdleCall EXCEPT !.phase = "returned", !.data = all]]
    /\ cache' = [i \in Items |->
         IF \E a \in all : a[1] = i
         THEN Stored(c, CHOOSE v \in Versions : <<i, v>> \in all)
         ELSE cache[i]]
    /\ UNCHANGED <<now, version, replaced, cleared>>

\* The answer arrives: it is stored, whatever the cache holds by now, and returned
\* together with the hits.
Return(c) ==
    /\ call[c].phase = "answered"
    /\ call' = [call EXCEPT ![c] =
         [IdleCall EXCEPT !.phase = "returned", !.data = call[c].data \cup call[c].answer]]
    /\ cache' = [i \in Items |->
         IF i \in call[c].missing
         THEN Stored(c, CHOOSE v \in Versions : <<i, v>> \in call[c].answer)
         ELSE cache[i]]
    /\ UNCHANGED <<now, version, replaced, cleared>>

\* An error status, a failed connection or a timeout: the exception leaves the
\* cache alone.
Fail(c) ==
    /\ Awaiting(c)
    /\ call' = [call EXCEPT ![c] = IdleCall]
    /\ UNCHANGED <<now, version, replaced, cleared, cache>>

\* The caller has its result; the slot is free again.
Release(c) ==
    /\ call[c].phase = "returned"
    /\ call' = [call EXCEPT ![c] = IdleCall]
    /\ UNCHANGED <<now, version, replaced, cleared, cache>>

\* A user changes at event-users, and with it what every list says.
Change(u) ==
    LET changed == {u} \cup Lists IN
    /\ \A i \in changed : version[i] < MaxVersion
    /\ version' = [i \in Items |-> IF i \in changed THEN version[i] + 1 ELSE version[i]]
    /\ replaced' = [i \in Items |->
         IF i \in changed THEN [replaced[i] EXCEPT ![version[i]] = now] ELSE replaced[i]]
    /\ UNCHANGED <<now, cleared, cache, call>>

\* Time passes, but not for a fetch that has reached its timeout.
Tick ==
    /\ now < MaxNow
    /\ \A c \in Calls : Awaiting(c) => now - call[c].since < FetchSeconds
    /\ now' = now + 1
    /\ UNCHANGED <<version, replaced, cleared, cache, call>>

Next ==
    \/ \E c \in Calls :
         GetUsers(c) \/ ListUsers(c) \/ Answer(c) \/ Return(c) \/ Fail(c) \/ Release(c)
    \/ \E u \in Users : Change(u)
    \/ Invalidate \/ Tick

Spec == Init /\ [][Next]_vars
----
(***************************************************************************)
(* Properties.                                                             *)
(***************************************************************************)

\* How long version v of item i has been out of date.
Staleness(i, v) == IF v = version[i] THEN 0 ELSE now - replaced[i][v]

\* An entry that can be served was current at most the TTL and one fetch ago,
\* also when an older answer overtakes a newer one on its way to the cache.
EntryStalenessBounded ==
    \A i \in Items : Hit(i) => Staleness(i, cache[i].version) <= Ttl + FetchSeconds

\* What a call returns was current at most the TTL and two fetches ago: a batch
\* keeps its hits while it awaits the rest.
ReturnStalenessBounded ==
    [][\A c \in Calls :
         call[c].phase # "returned" /\ call'[c].phase = "returned"
         => \A a \in call'[c].data : Staleness(a[1], a[2]) <= Ttl + 2 * FetchSeconds]_vars

\* After the webhook ran, only the answer to a fetch that was already under way
\* can bring back what was current before.
InvalidationRespected ==
    \A i \in Items :
        cache[i] # NoEntry /\ ~cache[i].crossed => cache[i].version >= cleared[i]
====
