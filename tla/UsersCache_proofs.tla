---- MODULE UsersCache_proofs ----
(***************************************************************************)
(* Proofs about UsersCache: types, how old an entry or a result can be,    *)
(* and what can come back after an invalidation, for any users, queries,   *)
(* calls, TTL and fetch time.                                              *)
(***************************************************************************)
EXTENDS UsersCache, TLAPS

\* Version v of item i was still current at time t, or later.
CurrentAt(i, v, t) == v = version[i] \/ replaced[i][v] >= t

\* A fetch ends in time, and an answer covers what was asked for.
CallsBounded ==
    \A c \in Calls :
        /\ Awaiting(c) => call[c].since <= now /\ now - call[c].since <= FetchSeconds
        /\ call[c].phase = "answered" =>
             \A i \in call[c].missing : \E v \in Versions : <<i, v>> \in call[c].answer

\* An answer under way was current after its call began, a hit at most the TTL and a
\* fetch before, an entry at most a fetch before it was stored.
Recent(c) ==
    Awaiting(c) =>
        \A i \in Items, v \in Versions :
            /\ <<i, v>> \in call[c].answer => v <= version[i] /\ CurrentAt(i, v, call[c].since)
            /\ <<i, v>> \in call[c].data =>
                 v <= version[i] /\ CurrentAt(i, v, call[c].since - Ttl - FetchSeconds)
AnswersRecent == \A c \in Calls : Recent(c)
EntriesRecent ==
    \A i \in Items : cache[i] # NoEntry =>
        CurrentAt(i, cache[i].version, cache[i].at - FetchSeconds)

\* An answer whose fetch the webhook has not crossed is as new as its last run.
AnswersUncrossed ==
    /\ \A i \in Items : cleared[i] <= version[i]
    /\ \A c \in Calls : Awaiting(c) /\ ~call[c].crossed =>
         \A i \in Items, v \in Versions : <<i, v>> \in call[c].answer => v >= cleared[i]

Inv == /\ TypeOK /\ CallsBounded /\ AnswersRecent /\ EntriesRecent
       /\ AnswersUncrossed /\ InvalidationRespected
----
LEMMA IdleCallType == IdleCall \in Call
  BY DEF IdleCall, Call

LEMMA NoEntryIsNone == NoEntry.version = -1 /\ NoEntry \notin Entry
  BY TimesAssumption DEF NoEntry, Entry, Versions

LEMMA InvInit == Init => Inv
  <1> SUFFICES ASSUME Init PROVE Inv
    OBVIOUS
  <1> USE TimesAssumption
  <1>1. \A c \in Calls : ~Awaiting(c) /\ call[c].phase = "idle" /\ call[c].answer = {}
    BY DEF Init, IdleCall, Awaiting
  <1>2. TypeOK
    BY <1>1, IdleCallType DEF Init, TypeOK, Versions
  <1>3. CallsBounded /\ AnswersRecent
    BY <1>1 DEF CallsBounded, AnswersRecent, Recent
  <1>4. EntriesRecent /\ InvalidationRespected
    BY DEF Init, EntriesRecent, InvalidationRespected
  <1>5. AnswersUncrossed
    BY <1>1 DEF Init, AnswersUncrossed, Versions
  <1>6. QED  BY <1>2, <1>3, <1>4, <1>5 DEF Inv

\* A call that starts.
LEMMA StartStep ==
    ASSUME Inv, NEW c \in Calls, NEW items \in SUBSET Items, Start(c, items)
    PROVE  Inv'
  <1> USE TimesAssumption
  <1> DEFINE hits == {i \in items : Hit(i)}
             found == {<<i, cache[i].version>> : i \in hits}
             q == [IdleCall EXCEPT !.phase   = IF hits = items THEN "returned" ELSE "asked",
                                   !.missing = items \ hits, !.data = found,
                                   !.since   = IF hits = items THEN 0 ELSE now]
  <1>1. /\ call' = [call EXCEPT ![c] = q] /\ UNCHANGED <<now, version, replaced, cleared>>
        /\ \A i \in Items : cache'[i] = NoEntry \/ cache'[i] = cache[i]
        /\ cache' \in [Items -> Entry \cup {NoEntry}]
    BY DEF Start, Inv, TypeOK
  <1>2. \A i \in hits : /\ i \in Items /\ cache[i] \in Entry /\ cache[i].version \in Versions
                        /\ cache[i].version <= version[i]
                        /\ cache[i].at \in Nat /\ now - cache[i].at <= Ttl
    BY DEF Hit, Inv, TypeOK, Entry
  <1>3. found \subseteq Items \X Versions
    BY <1>2
  <1>4. \A i \in Items, v \in Versions : <<i, v>> \in found =>
          v <= version[i] /\ CurrentAt(i, v, now - Ttl - FetchSeconds)
    <2>1. ASSUME NEW i \in hits
          PROVE  CurrentAt(i, cache[i].version, now - Ttl - FetchSeconds)
      <3>1. CurrentAt(i, cache[i].version, cache[i].at - FetchSeconds)
        BY <1>2 DEF Inv, EntriesRecent, Hit
      <3>2. now \in Nat /\ version[i] \in Versions /\ replaced[i][cache[i].version] \in Nat
        BY <1>2 DEF Inv, TypeOK
      <3>3. QED  BY <1>2, <3>1, <3>2 DEF CurrentAt
    <2>2. QED  BY <1>2, <2>1
  <1> HIDE DEF hits, found
  <1>5. /\ q \in Call /\ q.phase \in {"returned", "asked"} /\ q.answer = {} /\ q.data = found
        /\ q.phase = "asked" => q.since = now
    BY <1>3 DEF IdleCall, Call, hits, Inv, TypeOK
  <1> HIDE DEF q
  <1>6. /\ call'[c] = q /\ \A d \in Calls \ {c} : call'[d] = call[d]
        /\ call' \in [Calls -> Call]
    BY <1>1, <1>5 DEF Inv, TypeOK
  <1>7. TypeOK'
    BY <1>1, <1>5, <1>6 DEF Inv, TypeOK
  <1>8. CallsBounded'
    BY <1>1, <1>5, <1>6 DEF Inv, TypeOK, CallsBounded, Awaiting
  <1>9. AnswersRecent'
    <2> SUFFICES ASSUME NEW d \in Calls PROVE Recent(d)'
      BY DEF AnswersRecent
    <2>1. CASE d = c
      BY <1>1, <1>4, <1>5, <1>6, <2>1 DEF Recent, Awaiting, CurrentAt
    <2>2. CASE d # c
      BY <1>1, <1>6, <2>2 DEF Inv, AnswersRecent, Recent, Awaiting, CurrentAt
    <2>3. QED  BY <2>1, <2>2
  <1>10. EntriesRecent' /\ InvalidationRespected'
    BY <1>1 DEF Inv, EntriesRecent, InvalidationRespected, CurrentAt
  <1>11. AnswersUncrossed'
    BY <1>1, <1>5, <1>6 DEF Inv, AnswersUncrossed, Awaiting
  <1>12. QED  BY <1>7, <1>8, <1>9, <1>10, <1>11 DEF Inv

\* event-users answers.
LEMMA AnswerStep ==
    ASSUME Inv, NEW c \in Calls, Answer(c)
    PROVE  Inv'
  <1> USE TimesAssumption
  <1> DEFINE told == {<<i, version[i]>> : i \in call[c].missing}
             q == [call[c] EXCEPT !.phase = "answered", !.answer = told]
  <1>1. /\ call' = [call EXCEPT ![c] = q] /\ UNCHANGED <<now, version, replaced, cleared, cache>>
        /\ call[c] \in Call /\ call[c].phase = "asked"
    BY DEF Answer, Inv, TypeOK
  <1>2. /\ call[c].missing \subseteq Items /\ told \subseteq Items \X Versions
        /\ {a[1] : a \in told} \subseteq call[c].missing
        /\ \A i \in call[c].missing : version[i] \in Versions /\ <<i, version[i]>> \in told
        /\ \A i \in Items, v \in Versions : <<i, v>> \in told => v = version[i]
    BY <1>1 DEF Call, Inv, TypeOK
  <1> HIDE DEF told
  <1>3. /\ q \in Call /\ q.phase = "answered" /\ q.answer = told /\ q.missing = call[c].missing
        /\ q.data = call[c].data /\ q.since = call[c].since /\ q.crossed = call[c].crossed
    BY <1>1, <1>2 DEF Call
  <1> HIDE DEF q
  <1>4. /\ call'[c] = q /\ \A d \in Calls \ {c} : call'[d] = call[d]
        /\ call' \in [Calls -> Call] /\ Awaiting(c)
    BY <1>1, <1>3 DEF Inv, TypeOK, Awaiting
  <1>5. TypeOK'
    BY <1>1, <1>2, <1>3, <1>4 DEF Inv, TypeOK
  <1>6. CallsBounded'
    BY <1>1, <1>2, <1>3, <1>4 DEF Inv, CallsBounded, Awaiting
  <1>7. AnswersRecent'
    <2> SUFFICES ASSUME NEW d \in Calls PROVE Recent(d)'
      BY DEF AnswersRecent
    <2>1. CASE d = c
      <3>1. \A i \in Items, v \in Versions :
              <<i, v>> \in told => v <= version[i] /\ CurrentAt(i, v, call[c].since)
        BY <1>2 DEF CurrentAt, Versions, Inv, TypeOK
      <3>2. QED  BY <1>1, <1>3, <1>4, <2>1, <3>1 DEF Inv, AnswersRecent, Recent, Awaiting, CurrentAt
    <2>2. CASE d # c
      BY <1>1, <1>4, <2>2 DEF Inv, AnswersRecent, Recent, Awaiting, CurrentAt
    <2>3. QED  BY <2>1, <2>2
  <1>8. EntriesRecent' /\ InvalidationRespected'
    BY <1>1 DEF Inv, EntriesRecent, InvalidationRespected, CurrentAt
  <1>9. AnswersUncrossed'
    BY <1>1, <1>2, <1>3, <1>4 DEF Inv, AnswersUncrossed, Awaiting, Versions, TypeOK
  <1>10. QED  BY <1>5, <1>6, <1>7, <1>8, <1>9 DEF Inv

\* The answer arrives: what it says was current since the call began.
LEMMA ReturnStep ==
    ASSUME Inv, NEW c \in Calls, Return(c)
    PROVE  Inv'
  <1> USE TimesAssumption
  <1> DEFINE told(i) == CHOOSE v \in Versions : <<i, v>> \in call[c].answer
             q == [IdleCall EXCEPT !.phase = "returned", !.data = call[c].data \cup call[c].answer]
  <1>1. /\ call' = [call EXCEPT ![c] = q] /\ UNCHANGED <<now, version, replaced, cleared>>
        /\ cache' = [i \in Items |-> IF i \in call[c].missing THEN Stored(c, told(i)) ELSE cache[i]]
        /\ call[c] \in Call /\ call[c].phase = "answered" /\ Awaiting(c)
    BY DEF Return, Awaiting, Inv, TypeOK
  <1>2. ASSUME NEW i \in Items, i \in call[c].missing
        PROVE  told(i) \in Versions /\ <<i, told(i)>> \in call[c].answer
    BY <1>1, <1>2 DEF Inv, CallsBounded
  <1> HIDE DEF told
  <1>3. ASSUME NEW i \in Items, i \in call[c].missing
        PROVE  /\ told(i) \in Versions /\ told(i) <= version[i]
               /\ CurrentAt(i, told(i), now - FetchSeconds)
               /\ ~call[c].crossed => told(i) >= cleared[i]
    <2>1. /\ told(i) <= version[i] /\ CurrentAt(i, told(i), call[c].since)
          /\ ~call[c].crossed => told(i) >= cleared[i]
      BY <1>1, <1>2, <1>3 DEF Inv, AnswersRecent, Recent, AnswersUncrossed
    <2>2. call[c].since \in Nat /\ now \in Nat /\ now - call[c].since <= FetchSeconds
      BY <1>1 DEF Inv, CallsBounded, TypeOK, Call
    <2>3. replaced[i][told(i)] \in Nat
      BY <1>2, <1>3 DEF Inv, TypeOK
    <2>4. CurrentAt(i, told(i), now - FetchSeconds)
      BY <2>1, <2>2, <2>3 DEF CurrentAt
    <2>5. QED  BY <1>2, <1>3, <2>1, <2>4
  <1>4. q \in Call /\ q.phase = "returned" /\ q.answer = {}
    BY <1>1 DEF IdleCall, Call
  <1> HIDE DEF q
  <1>5. /\ call'[c] = q /\ \A d \in Calls \ {c} : call'[d] = call[d]
        /\ call' \in [Calls -> Call]
    BY <1>1, <1>4 DEF Inv, TypeOK
  <1>6. ASSUME NEW i \in Items, i \in call[c].missing
        PROVE  /\ cache'[i] \in Entry /\ cache'[i].version = told(i) /\ cache'[i].at = now
               /\ cache'[i].crossed = call[c].crossed
    BY <1>1, <1>3, <1>6 DEF Stored, Entry, Inv, TypeOK, Call
  <1>7. \A i \in Items : i \notin call[c].missing => cache'[i] = cache[i]
    BY <1>1
  <1>8. TypeOK'
    <2>1. cache' \in [Items -> Entry \cup {NoEntry}]
      BY <1>1, <1>6, <1>7 DEF Inv, TypeOK
    <2>2. \A i \in Items : cache'[i] # NoEntry => cache'[i].at <= now /\ cache'[i].version <= version[i]
      BY <1>3, <1>6, <1>7 DEF Inv, TypeOK
    <2>3. QED  BY <1>1, <1>4, <1>5, <2>1, <2>2 DEF Inv, TypeOK
  <1>9. CallsBounded' /\ AnswersRecent'
    <2>1. ASSUME NEW d \in Calls PROVE Awaiting(d)' => d # c /\ Awaiting(d)
      BY <1>4, <1>5 DEF Awaiting
    <2>2. CallsBounded'
      BY <1>1, <1>4, <1>5, <2>1 DEF Inv, CallsBounded
    <2>3. \A d \in Calls : Recent(d)'
      BY <1>1, <1>5, <2>1 DEF Inv, AnswersRecent, Recent, CurrentAt
    <2>4. QED  BY <2>2, <2>3 DEF AnswersRecent
  <1>10. EntriesRecent'
    <2> SUFFICES ASSUME NEW i \in Items, cache'[i] # NoEntry
                 PROVE  CurrentAt(i, cache[i].version, cache[i].at - FetchSeconds)'
      BY DEF EntriesRecent
    <2>1. CASE i \in call[c].missing
      BY <1>1, <1>3, <1>6, <2>1 DEF CurrentAt
    <2>2. CASE i \notin call[c].missing
      BY <1>1, <1>7, <2>2 DEF Inv, EntriesRecent, CurrentAt
    <2>3. QED  BY <2>1, <2>2
  <1>11. InvalidationRespected'
    <2> SUFFICES ASSUME NEW i \in Items, cache'[i] # NoEntry, ~cache'[i].crossed
                 PROVE  cache'[i].version >= cleared'[i]
      BY DEF InvalidationRespected
    <2>1. CASE i \in call[c].missing
      BY <1>1, <1>3, <1>6, <2>1
    <2>2. CASE i \notin call[c].missing
      BY <1>1, <1>7, <2>2 DEF Inv, InvalidationRespected
    <2>3. QED  BY <2>1, <2>2
  <1>12. AnswersUncrossed'
    BY <1>1, <1>4, <1>5 DEF Inv, AnswersUncrossed, Awaiting
  <1>13. QED  BY <1>8, <1>9, <1>10, <1>11, <1>12 DEF Inv

\* A call that fails or is over.
LEMMA FreeStep ==
    ASSUME Inv, NEW c \in Calls, Fail(c) \/ Release(c)
    PROVE  Inv'
  <1>1. /\ call' = [call EXCEPT ![c] = IdleCall]
        /\ UNCHANGED <<now, version, replaced, cleared, cache>>
    BY DEF Fail, Release
  <1>2. IdleCall.phase = "idle" /\ IdleCall.answer = {}
    BY DEF IdleCall
  <1>3. /\ call'[c] = IdleCall /\ \A d \in Calls \ {c} : call'[d] = call[d]
        /\ call' \in [Calls -> Call]
    BY <1>1, IdleCallType DEF Inv, TypeOK
  <1>4. ASSUME NEW d \in Calls PROVE Awaiting(d)' => d # c /\ Awaiting(d)
    BY <1>2, <1>3 DEF Awaiting
  <1>5. TypeOK'
    BY <1>1, <1>2, <1>3 DEF Inv, TypeOK
  <1>6. CallsBounded'
    BY <1>1, <1>2, <1>3, <1>4 DEF Inv, CallsBounded
  <1>7. AnswersRecent'
    BY <1>1, <1>3, <1>4 DEF Inv, AnswersRecent, Recent, CurrentAt
  <1>8. EntriesRecent' /\ InvalidationRespected'
    BY <1>1 DEF Inv, EntriesRecent, InvalidationRespected, CurrentAt
  <1>9. AnswersUncrossed'
    BY <1>1, <1>3, <1>4 DEF Inv, AnswersUncrossed
  <1>10. QED  BY <1>5, <1>6, <1>7, <1>8, <1>9 DEF Inv

LEMMA VersionsOrdered ==
    ASSUME NEW u \in Versions, NEW v \in Versions, NEW w \in Versions, u <= v, v <= w
    PROVE  u <= w
  BY TimesAssumption DEF Versions

\* A change replaces the present version now, and no earlier one.
LEMMA ChangeStep ==
    ASSUME Inv, NEW u \in Users, Change(u)
    PROVE  Inv'
  <1> USE TimesAssumption
  <1>1. UNCHANGED <<now, cleared, cache, call>>
    BY DEF Change
  <1>2. ASSUME NEW i \in Items
        PROVE  /\ version[i] \in Versions /\ version'[i] \in Versions /\ version[i] <= version'[i]
               /\ replaced'[i] \in [Versions -> Nat]
               /\ \/ version'[i] = version[i] /\ replaced'[i] = replaced[i]
                  \/ version'[i] > version[i] /\ replaced'[i] = [replaced[i] EXCEPT ![version[i]] = now]
    BY DEF Change, Inv, TypeOK, Versions
  <1>3. ASSUME NEW i \in Items, NEW v \in Versions, NEW t \in Int, v <= version[i], t <= now,
               CurrentAt(i, v, t)
        PROVE  CurrentAt(i, v, t)'
    <2>1. now \in Nat /\ replaced[i] \in [Versions -> Nat]
      BY DEF Inv, TypeOK
    <2>2. CASE version'[i] = version[i] /\ replaced'[i] = replaced[i]
      BY <1>3, <2>2 DEF CurrentAt
    <2>3. CASE version'[i] > version[i] /\ replaced'[i] = [replaced[i] EXCEPT ![version[i]] = now]
      <3>1. CASE v = version[i]
        BY <1>3, <2>1, <2>3, <3>1 DEF CurrentAt
      <3>2. CASE v # version[i]
        BY <1>3, <2>1, <2>3, <3>2 DEF CurrentAt
      <3>3. QED  BY <3>1, <3>2
    <2>4. QED  BY <1>2, <2>2, <2>3
  <1>4. TypeOK'
    <2>1. version' \in [Items -> Versions] /\ replaced' \in [Items -> [Versions -> Nat]]
      BY <1>2 DEF Change
    <2>2. \A i \in Items : cache[i] # NoEntry => cache[i].version <= version'[i]
      <3>1. \A i \in Items : cache[i] # NoEntry =>
              cache[i].version \in Versions /\ cache[i].version <= version[i]
        BY DEF Inv, TypeOK, Entry
      <3>2. QED  BY <1>2, <3>1, VersionsOrdered
    <2>3. QED  BY <1>1, <2>1, <2>2 DEF Inv, TypeOK
  <1>5. CallsBounded'
    BY <1>1 DEF Inv, CallsBounded, Awaiting
  <1>6. AnswersRecent'
    <2> SUFFICES ASSUME NEW c \in Calls, Awaiting(c), NEW i \in Items, NEW v \in Versions,
                        <<i, v>> \in call[c].answer \/ <<i, v>> \in call[c].data
                 PROVE  /\ v <= version'[i]
                        /\ <<i, v>> \in call[c].answer => CurrentAt(i, v, call[c].since)'
                        /\ <<i, v>> \in call[c].data => CurrentAt(i, v, call[c].since - Ttl - FetchSeconds)'
      BY <1>1 DEF AnswersRecent, Recent, Awaiting
    <2>1. /\ call[c].since \in Nat /\ call[c].since <= now /\ now \in Nat /\ v <= version[i]
          /\ <<i, v>> \in call[c].answer => CurrentAt(i, v, call[c].since)
          /\ <<i, v>> \in call[c].data => CurrentAt(i, v, call[c].since - Ttl - FetchSeconds)
      BY DEF Inv, TypeOK, Call, CallsBounded, AnswersRecent, Recent
    <2>2. v <= version'[i]
      BY <1>2, <2>1, VersionsOrdered
    <2>3. <<i, v>> \in call[c].answer => CurrentAt(i, v, call[c].since)'
      BY <1>1, <1>3, <2>1 DEF CurrentAt
    <2>4. <<i, v>> \in call[c].data => CurrentAt(i, v, call[c].since - Ttl - FetchSeconds)'
      BY <1>1, <1>3, <2>1 DEF CurrentAt
    <2>5. QED  BY <2>2, <2>3, <2>4
  <1>7. EntriesRecent'
    <2> SUFFICES ASSUME NEW i \in Items, cache[i] # NoEntry
                 PROVE  CurrentAt(i, cache[i].version, cache[i].at - FetchSeconds)'
      BY <1>1 DEF EntriesRecent
    <2>1. /\ cache[i].at \in Nat /\ cache[i].at <= now /\ now \in Nat
          /\ cache[i].version \in Versions /\ cache[i].version <= version[i]
          /\ CurrentAt(i, cache[i].version, cache[i].at - FetchSeconds)
      BY DEF Inv, TypeOK, Entry, EntriesRecent
    <2>2. QED  BY <1>1, <1>3, <2>1 DEF CurrentAt
  <1>8. InvalidationRespected'
    BY <1>1 DEF Inv, InvalidationRespected
  <1>9. AnswersUncrossed'
    <2>1. \A i \in Items : cleared'[i] <= version'[i]
      <3>1. \A i \in Items : cleared[i] \in Versions /\ cleared[i] <= version[i]
        BY DEF Inv, TypeOK, AnswersUncrossed
      <3>2. QED  BY <1>1, <1>2, <3>1, VersionsOrdered
    <2>2. QED  BY <1>1, <2>1 DEF Inv, AnswersUncrossed, Awaiting
  <1>10. QED  BY <1>4, <1>5, <1>6, <1>7, <1>8, <1>9 DEF Inv

\* The webhook marks every fetch it crosses.
LEMMA InvalidateStep ==
    ASSUME Inv, Invalidate
    PROVE  Inv'
  <1> USE TimesAssumption
  <1>1. /\ UNCHANGED <<now, version, replaced>> /\ cleared' = version
        /\ \A i \in Items : cache'[i] = NoEntry
        /\ cache' \in [Items -> Entry \cup {NoEntry}]
    BY DEF Invalidate
  <1>2. ASSUME NEW c \in Calls
        PROVE  /\ call'[c] \in Call /\ call'[c].phase = call[c].phase /\ call'[c].missing = call[c].missing
               /\ call'[c].answer = call[c].answer /\ call'[c].data = call[c].data
               /\ call'[c].since = call[c].since /\ (Awaiting(c) => call'[c].crossed)
    <2>1. call[c] \in Call /\ call'[c] = [call[c] EXCEPT !.crossed = Awaiting(c)] /\ Awaiting(c) \in BOOLEAN
      BY DEF Invalidate, Inv, TypeOK, Awaiting
    <2>2. QED  BY <2>1 DEF Call
  <1>3. TypeOK'
    <2>1. call' \in [Calls -> Call]
      BY <1>2 DEF Invalidate
    <2>2. cleared' \in [Items -> Versions]
      BY <1>1 DEF Inv, TypeOK
    <2>3. QED  BY <1>1, <1>2, <2>1, <2>2 DEF Inv, TypeOK
  <1>4. CallsBounded'
    BY <1>1, <1>2 DEF Inv, CallsBounded, Awaiting
  <1>5. AnswersRecent'
    BY <1>1, <1>2 DEF Inv, AnswersRecent, Recent, Awaiting, CurrentAt
  <1>6. EntriesRecent' /\ InvalidationRespected'
    BY <1>1 DEF EntriesRecent, InvalidationRespected
  <1>7. AnswersUncrossed'
    <2>1. \A i \in Items : cleared'[i] <= version'[i]
      BY <1>1, TimesAssumption DEF Inv, TypeOK, Versions
    <2>2. \A c \in Calls : Awaiting(c)' => call'[c].crossed
      BY <1>2 DEF Awaiting
    <2>3. QED  BY <2>1, <2>2 DEF AnswersUncrossed
  <1>8. QED  BY <1>3, <1>4, <1>5, <1>6, <1>7 DEF Inv

\* Time passes, but for no fetch beyond its timeout.
LEMMA TickStep ==
    ASSUME Inv, Tick
    PROVE  Inv'
  <1> USE TimesAssumption
  <1>1. UNCHANGED <<version, replaced, cleared, cache, call>> /\ now' = now + 1 /\ now \in Nat
    BY DEF Tick, Inv, TypeOK
  <1>2. TypeOK'
    <2>1. \A i \in Items : cache[i] # NoEntry => cache[i].at \in Nat /\ cache[i].at <= now + 1
      BY <1>1 DEF Inv, TypeOK, Entry
    <2>2. QED  BY <1>1, <2>1 DEF Inv, TypeOK
  <1>3. CallsBounded'
    <2>1. \A c \in Calls : Awaiting(c) => /\ call[c].since \in Nat /\ call[c].since <= now
                                           /\ now - call[c].since < FetchSeconds
      BY DEF Tick, Inv, TypeOK, Call, CallsBounded
    <2>2. QED  BY <1>1, <2>1 DEF Inv, CallsBounded, Awaiting
  <1>4. AnswersRecent' /\ EntriesRecent' /\ InvalidationRespected' /\ AnswersUncrossed'
    BY <1>1 DEF Inv, AnswersRecent, Recent, Awaiting, CurrentAt, EntriesRecent,
                InvalidationRespected, AnswersUncrossed
  <1>5. QED  BY <1>2, <1>3, <1>4 DEF Inv

LEMMA InvStep == Inv /\ [Next]_vars => Inv'
  <1> SUFFICES ASSUME Inv, [Next]_vars PROVE Inv'
    OBVIOUS
  <1>1. CASE UNCHANGED vars
    BY <1>1 DEF Inv, TypeOK, CallsBounded, AnswersRecent, Recent, Awaiting, CurrentAt, EntriesRecent,
                InvalidationRespected, AnswersUncrossed, vars
  <1>2. ASSUME NEW c \in Calls,
               GetUsers(c) \/ ListUsers(c) \/ Answer(c) \/ Return(c) \/ Fail(c) \/ Release(c)
        PROVE  Inv'
    <2>1. CASE GetUsers(c) \/ ListUsers(c)
      <3>1. PICK items \in SUBSET Items : Start(c, items)
        BY <2>1 DEF GetUsers, ListUsers, Items
      <3>2. QED  BY <3>1, StartStep
    <2>2. QED  BY <1>2, <2>1, AnswerStep, ReturnStep, FreeStep
  <1>3. CASE \E u \in Users : Change(u)
    BY <1>3, ChangeStep
  <1>4. CASE Invalidate \/ Tick
    BY <1>4, InvalidateStep, TickStep
  <1>5. QED  BY <1>1, <1>2, <1>3, <1>4 DEF Next

\* The inductive invariant: every version in the cache or under way was current not
\* long ago.
LEMMA InvHolds == Spec => []Inv
  BY InvInit, InvStep, PTL DEF Spec

\* The variables keep their types; the cache holds nothing event-users never said.
THEOREM TypeCorrect == Spec => []TypeOK
  <1>1. Inv => TypeOK
    BY DEF Inv
  <1>2. QED  BY <1>1, InvHolds, PTL

\* Nothing that can be served is older than the TTL and one fetch.
THEOREM EntryStalenessIsBounded == Spec => []EntryStalenessBounded
  <1>1. ASSUME Inv PROVE EntryStalenessBounded
    <2> SUFFICES ASSUME NEW i \in Items, Hit(i)
                 PROVE  Staleness(i, cache[i].version) <= Ttl + FetchSeconds
      BY DEF EntryStalenessBounded
    <2>1. cache[i] \in Entry /\ cache[i] # NoEntry /\ now \in Nat /\ now - cache[i].at <= Ttl
      BY <1>1 DEF Hit, Inv, TypeOK
    <2>2. CurrentAt(i, cache[i].version, cache[i].at - FetchSeconds)
      BY <1>1, <2>1 DEF Inv, EntriesRecent
    <2>3. cache[i].at \in Nat /\ cache[i].version \in Versions /\ replaced[i][cache[i].version] \in Nat
      BY <1>1, <2>1 DEF Inv, TypeOK, Entry
    <2>4. QED  BY <2>1, <2>2, <2>3, TimesAssumption DEF CurrentAt, Staleness
  <1>2. QED  BY <1>1, InvHolds, PTL

\* After an invalidation only a fetch that was under way can bring back old data.
THEOREM InvalidationIsRespected == Spec => []InvalidationRespected
  <1>1. Inv => InvalidationRespected
    BY DEF Inv
  <1>2. QED  BY <1>1, InvHolds, PTL

LEMMA StalenessFromCurrent ==
    ASSUME Inv, NEW i \in Items, NEW v \in Versions, NEW t \in Int, NEW d \in Nat,
           CurrentAt(i, v, t), now - t <= d
    PROVE  Staleness(i, v) <= d
  <1>1. now \in Nat /\ replaced[i][v] \in Nat
    BY DEF Inv, TypeOK
  <1>2. QED  BY <1>1 DEF CurrentAt, Staleness

\* No call returns anything older than the TTL and two fetches.
THEOREM ReturnStalenessIsBounded == Spec => ReturnStalenessBounded
  <1> USE TimesAssumption
  <1> DEFINE Bound == Ttl + 2 * FetchSeconds
             Fresh == \A c \in Calls :
                        call[c].phase # "returned" /\ call'[c].phase = "returned"
                        => \A a \in call'[c].data : Staleness(a[1], a[2]) <= Bound
  <1>1. ASSUME Inv, [Next]_vars PROVE Fresh
    <2> SUFFICES ASSUME NEW c \in Calls, call[c].phase # "returned", call'[c].phase = "returned"
                 PROVE  \A a \in call'[c].data : Staleness(a[1], a[2]) <= Bound
      OBVIOUS
    <2>1. ASSUME NEW d \in Calls, Return(d)
          PROVE  \A a \in call'[c].data : Staleness(a[1], a[2]) <= Bound
      <3>1. c = d
        BY <1>1, <2>1 DEF Return, Inv, TypeOK
      <3>2. call'[c].data = call[c].data \cup call[c].answer
        BY <1>1, <2>1, <3>1 DEF Return, Inv, TypeOK, IdleCall
      <3>3. /\ Awaiting(c) /\ call[c] \in Call /\ now \in Nat
            /\ call[c].since \in Nat /\ now - call[c].since <= FetchSeconds
        BY <1>1, <2>1, <3>1 DEF Return, Awaiting, Inv, TypeOK, Call, CallsBounded
      <3>4. ASSUME NEW i \in Items, NEW v \in Versions, <<i, v>> \in call[c].data \cup call[c].answer
            PROVE  Staleness(i, v) <= Bound
        <4>1. CASE <<i, v>> \in call[c].answer
          <5>1. CurrentAt(i, v, call[c].since)
            BY <1>1, <3>3, <4>1 DEF Inv, AnswersRecent, Recent
          <5>2. now - call[c].since <= Bound
            BY <3>3
          <5>3. QED  BY <1>1, <3>3, <5>1, <5>2, StalenessFromCurrent
        <4>2. CASE <<i, v>> \in call[c].data
          <5>1. CurrentAt(i, v, call[c].since - Ttl - FetchSeconds)
            BY <1>1, <3>3, <4>2 DEF Inv, AnswersRecent, Recent
          <5>2. now - (call[c].since - Ttl - FetchSeconds) <= Bound
            BY <3>3
          <5>3. QED  BY <1>1, <3>3, <5>1, <5>2, StalenessFromCurrent
        <4>3. QED  BY <3>4, <4>1, <4>2
      <3>5. call[c].data \cup call[c].answer \subseteq Items \X Versions
        BY <3>3 DEF Call
      <3>6. QED  BY <3>2, <3>4, <3>5
    <2>2. ASSUME NEW d \in Calls, NEW items \in SUBSET Items, Start(d, items)
          PROVE  \A a \in call'[c].data : Staleness(a[1], a[2]) <= Bound
      <3>1. c = d
        BY <1>1, <2>2 DEF Start, Inv, TypeOK
      <3>2. call'[c].data = {<<i, cache[i].version>> : i \in {j \in items : Hit(j)}}
        BY <1>1, <2>2, <3>1 DEF Start, Inv, TypeOK, IdleCall
      <3>3. ASSUME NEW i \in items, Hit(i) PROVE Staleness(i, cache[i].version) <= Bound
        <4>1. /\ cache[i] \in Entry /\ cache[i] # NoEntry /\ now \in Nat
              /\ now - cache[i].at <= Ttl /\ cache[i].at \in Nat /\ cache[i].version \in Versions
          BY <1>1, <3>3 DEF Hit, Inv, TypeOK, Entry
        <4>2. CurrentAt(i, cache[i].version, cache[i].at - FetchSeconds)
          BY <1>1, <4>1 DEF Inv, EntriesRecent
        <4>3. now - (cache[i].at - FetchSeconds) <= Bound
          BY <4>1
        <4>4. QED  BY <1>1, <4>1, <4>2, <4>3, StalenessFromCurrent
      <3>4. QED  BY <3>2, <3>3
    <2>3. CASE \/ UNCHANGED vars
               \/ \E d \in Calls : Answer(d) \/ Fail(d) \/ Release(d)
               \/ \E u \in Users : Change(u)
               \/ Invalidate \/ Tick
      <3>1. call'[c].phase # "returned"
        <4>1. CASE UNCHANGED vars \/ (\E u \in Users : Change(u)) \/ Tick
          BY <4>1 DEF vars, Change, Tick
        <4>2. ASSUME NEW d \in Calls, Answer(d) PROVE call'[c].phase # "returned"
          BY <1>1, <4>2 DEF Answer, Inv, TypeOK, Call
        <4>3. ASSUME NEW d \in Calls, Fail(d) \/ Release(d) PROVE call'[c].phase # "returned"
          BY <1>1, <4>3 DEF Fail, Release, IdleCall, Inv, TypeOK
        <4>4. CASE Invalidate
          <5>1. call[c] \in Call /\ call'[c] = [call[c] EXCEPT !.crossed = Awaiting(c)]
            BY <1>1, <4>4 DEF Invalidate, Inv, TypeOK
          <5>2. QED  BY <5>1 DEF Call
        <4>5. QED  BY <2>3, <4>1, <4>2, <4>3, <4>4
      <3>2. QED  BY <3>1
    <2>4. QED
      BY <1>1, <2>1, <2>2, <2>3 DEF Next, GetUsers, ListUsers, Items
  <1>2. QED  BY <1>1, InvHolds, PTL DEF Spec, ReturnStalenessBounded
====
