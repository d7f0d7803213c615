---- MODULE AdminCommands_proofs ----
(***************************************************************************)
(* Proofs about AdminCommands: types, and that every command that goes out *)
(* and every refusal rests on what was true while its request ran, for any *)
(* users, bookings and requests.                                           *)
(***************************************************************************)
EXTENDS AdminCommands, TLAPS

\* What a request q knows, against what has been true since it began.
RowSeen(q, F) ==
    q.kind \in {"reassign", "reminder"} /\ q.phase \notin {"idle", "booking", "lost"}
    /\ ~(q.phase = "refused" /\ q.reason = "error")
    => <<"row", q.booking, q.row>> \in F
RowUsed(q) ==
    /\ q.kind = "reassign" /\ q.phase \in {"identity", "identified", "publish"} => q.row.exists
    /\ q.kind = "reminder" /\ q.phase \in {"user", "publish"}
       => q.row = [exists |-> TRUE, client |-> q.user, ready |-> TRUE]
HolderSeen(q, F) ==
    q.phase = "identified" =>
        IF q.holder = None THEN <<"free", Lower[q.body], None>> \in F
        ELSE q.holder \in Clients /\ <<"holds", q.holder, Lower[q.body]>> \in F
Arguments(q) ==
    /\ q.kind \in {"reassign", "change"} => q.body \in Spellings
    /\ q.kind \in {"reassign", "reminder"} => q.booking \in Bookings
    /\ q.phase \in {"booking", "details"} => q.kind \in {"reassign", "reminder"}
    /\ q.phase = "user" => q.kind \in {"reminder", "change"} /\ q.user \in Users
    /\ q.phase \in {"identity", "identified"} => q.kind \in {"reassign", "change"}
Grounded(q, F) ==
    /\ q.phase = "publish" /\ q.kind = "reassign" => <<"holds", q.user, Lower[q.body]>> \in F
    /\ q.phase = "publish" /\ q.kind = "change" => <<"free", Lower[q.body], None>> \in F
    /\ q.phase = "refused" /\ q.reason = "booking_not_found" => <<"row", q.booking, NoRow>> \in F
    /\ q.phase = "refused" /\ q.reason = "client_not_found" /\ q.kind = "reassign"
       => <<"free", Lower[q.body], None>> \in F
    /\ q.phase = "refused" /\ q.reason = "email_already_in_use"
       => \E c \in Clients : <<"holds", c, Lower[q.body]>> \in F
Sound(q, F) ==
    RowSeen(q, F) /\ RowUsed(q) /\ HolderSeen(q, F) /\ Arguments(q) /\ Grounded(q, F)

\* The facts a waiting request has seen include those of the present.
Observed == \A r \in Requests : request[r].phase \in Waiting => Facts \subseteq facts[r]
AllSound == \A r \in Requests : Sound(request[r], facts[r])
Inv == TypeOK /\ Observed /\ AllSound
----
\* Soundness only grows with what has been seen.
LEMMA SoundMonotone ==
    ASSUME NEW q, NEW F, NEW G, Sound(q, F), F \subseteq G
    PROVE  Sound(q, G)
  BY DEF Sound, RowSeen, RowUsed, HolderSeen, Arguments, Grounded

LEMMA RefusedType ==
    ASSUME NEW q \in Request, NEW reason \in Reasons
    PROVE  Refused(q, reason) \in Request
  BY DEF Refused, Request

\* What get_user returns leaves a request sound.
LEMMA WithUserSound ==
    ASSUME NEW q \in Request, NEW F, NEW e \in Emails, Sound(q, F),
           q.phase \in {"user", "details", "idle"}, q.kind \in {"reminder", "change"},
           q.user \in Users,
           q.kind = "reminder" => /\ <<"row", q.booking, q.row>> \in F
                                  /\ q.row = [exists |-> TRUE, client |-> q.user, ready |-> TRUE]
    PROVE  WithUser(q, e) \in Request /\ Sound(WithUser(q, e), F)
  <1>1. CASE q.kind = "reminder"
    <2>1. WithUser(q, e) = [q EXCEPT !.phase = "publish", !.old = e]
      BY <1>1 DEF WithUser
    <2>2. [q EXCEPT !.phase = "publish", !.old = e] \in Request
      BY DEF Request
    <2>3. Sound([q EXCEPT !.phase = "publish", !.old = e], F)
      BY <1>1 DEF Sound, RowSeen, RowUsed, HolderSeen, Arguments, Grounded, Request
    <2>4. QED  BY <2>1, <2>2, <2>3
  <1>2. CASE q.kind = "change"
    <2>1. WithUser(q, e) \in {Refused(q, "not_a_client"), Refused(q, "email_unchanged"),
                              [q EXCEPT !.phase = "identity", !.old = e]}
      BY <1>2 DEF WithUser
    <2>2. ASSUME NEW reason \in {"not_a_client", "email_unchanged"}
          PROVE  Refused(q, reason) \in Request /\ Sound(Refused(q, reason), F)
      <3>1. Refused(q, reason) \in Request
        BY RefusedType DEF Reasons
      <3>2. Sound(Refused(q, reason), F)
        BY <1>2 DEF Refused, Request, Sound, RowSeen, RowUsed, HolderSeen, Arguments, Grounded
      <3>3. QED  BY <3>1, <3>2
    <2>3. [q EXCEPT !.phase = "identity", !.old = e] \in Request
      BY DEF Request, Waiting, AwaitsUsers
    <2>4. Sound([q EXCEPT !.phase = "identity", !.old = e], F)
      BY <1>2 DEF Sound, RowSeen, RowUsed, HolderSeen, Arguments, Grounded, Request
    <2>5. QED  BY <2>1, <2>2, <2>3, <2>4
  <1>3. QED  BY <1>1, <1>2

\* A request that is refused because of a failure, or lost, is sound.
LEMMA GivenUpSound ==
    ASSUME NEW q \in Request, NEW F, Sound(q, F)
    PROVE  /\ Refused(q, "error") \in Request /\ Sound(Refused(q, "error"), F)
           /\ [q EXCEPT !.phase = "lost"] \in Request /\ Sound([q EXCEPT !.phase = "lost"], F)
  <1>1. Refused(q, "error") \in Request
    BY RefusedType DEF Reasons
  <1>2. Sound(Refused(q, "error"), F)
    BY DEF Refused, Request, Sound, RowSeen, RowUsed, HolderSeen, Arguments, Grounded
  <1>3. [q EXCEPT !.phase = "lost"] \in Request
    BY DEF Request
  <1>4. Sound([q EXCEPT !.phase = "lost"], F)
    BY DEF Request, Sound, RowSeen, RowUsed, HolderSeen, Arguments, Grounded
  <1>5. QED  BY <1>1, <1>2, <1>3, <1>4

\* So does what GetUser may make of it.
LEMMA GetUserSound ==
    ASSUME TypeOK, NEW q \in Request, NEW F, Sound(q, F),
           q.phase \in {"details", "idle"}, q.kind \in {"reminder", "change"}, q.user \in Users,
           q.kind = "reminder" => /\ <<"row", q.booking, q.row>> \in F
                                  /\ q.row = [exists |-> TRUE, client |-> q.user, ready |-> TRUE],
           NEW next \in GetUser(q)
    PROVE  next \in Request /\ Sound(next, F)
  <1>1. CASE next = [q EXCEPT !.phase = "user"]
    <2>1. next \in Request
      BY <1>1 DEF Request, Waiting, AwaitsUsers
    <2>2. Sound(next, F)
      BY <1>1 DEF Sound, RowSeen, RowUsed, HolderSeen, Arguments, Grounded, Request
    <2>3. QED  BY <2>1, <2>2
  <1>2. CASE next # [q EXCEPT !.phase = "user"]
    <2>1. PICK e \in had[q.user] : next = WithUser(q, e)
      BY <1>2 DEF GetUser
    <2>2. e \in Emails
      BY DEF TypeOK
    <2>3. QED  BY <2>1, <2>2, WithUserSound
  <1>3. QED  BY <1>1, <1>2

\* A request that has got its booking stays sound.
LEMMA WithBookingSound ==
    ASSUME TypeOK, NEW q \in Request, NEW F, Sound(q, F), q.phase = "details",
           NEW next \in WithBooking(q)
    PROVE  next \in Request /\ Sound(next, F)
  <1> DEFINE p == [q EXCEPT !.user = q.row.client]
  <1>1. /\ q.kind \in {"reassign", "reminder"} /\ q.row \in Rows
        /\ <<"row", q.booking, q.row>> \in F /\ q.booking \in Bookings
    BY DEF Sound, Arguments, RowSeen, Request
  <1>2. \/ next = Refused(q, "booking_not_found") /\ ~q.row.exists
        \/ next = [q EXCEPT !.phase = "identity"] /\ q.kind = "reassign" /\ q.row.exists
        \/ next \in {Refused(q, "no_client"), Refused(q, "not_eligible")}
        \/ /\ next \in GetUser(p) /\ q.row.exists /\ q.row.ready
           /\ q.row.client # None /\ q.kind = "reminder"
    BY <1>1 DEF WithBooking
  <1>3. CASE next = Refused(q, "booking_not_found") /\ ~q.row.exists
    <2>1. q.row = NoRow
      BY <1>1, <1>3 DEF Rows
    <2>2. next \in Request
      BY <1>3, RefusedType DEF Reasons
    <2>3. Sound(next, F)
      BY <1>1, <1>3, <2>1 DEF Refused, Request, Sound, RowSeen, RowUsed, HolderSeen, Arguments, Grounded
    <2>4. QED  BY <2>2, <2>3
  <1>4. CASE next = [q EXCEPT !.phase = "identity"] /\ q.kind = "reassign" /\ q.row.exists
    <2>1. next \in Request
      BY <1>4 DEF Request, Waiting, AwaitsUsers
    <2>2. Sound(next, F)
      BY <1>1, <1>4 DEF Request, Sound, RowSeen, RowUsed, HolderSeen, Arguments, Grounded
    <2>3. QED  BY <2>1, <2>2
  <1>5. CASE next \in {Refused(q, "no_client"), Refused(q, "not_eligible")}
    <2>1. next \in Request
      BY <1>5, RefusedType DEF Reasons
    <2>2. Sound(next, F)
      BY <1>1, <1>5 DEF Refused, Request, Sound, RowSeen, RowUsed, HolderSeen, Arguments, Grounded
    <2>3. QED  BY <2>1, <2>2
  <1>6. CASE next \in GetUser(p) /\ q.row.exists /\ q.row.ready /\ q.row.client # None /\ q.kind = "reminder"
    <2>1. q.row.client \in Users /\ q.row = [exists |-> TRUE, client |-> q.row.client, ready |-> TRUE]
      <3>1. q.row \in [exists : {TRUE}, client : Users \cup {None}, ready : BOOLEAN]
        <4>1. NoRow.exists = FALSE
          BY DEF NoRow
        <4>2. q.row # NoRow
          BY <1>6, <4>1
        <4>3. QED  BY <1>1, <4>2 DEF Rows
      <3>2. q.row.exists = TRUE /\ q.row.client \in Users /\ q.row.ready = TRUE
        BY <1>6, <3>1
      <3>3. q.row = [exists |-> q.row.exists, client |-> q.row.client, ready |-> q.row.ready]
        BY <3>1
      <3>4. QED  BY <3>2, <3>3
    <2>2. /\ p \in Request /\ p.phase = "details" /\ p.kind = "reminder" /\ p.user = q.row.client
          /\ p.row = q.row /\ p.booking = q.booking
      BY <1>6, <2>1 DEF Request
    <2>3. Sound(p, F)
      BY <1>6, <2>1 DEF Sound, RowSeen, RowUsed, HolderSeen, Arguments, Grounded, Request
    <2>4. QED
      <3> HIDE DEF p
      <3> QED  BY <1>1, <1>6, <2>1, <2>2, <2>3, GetUserSound
  <1>7. QED  BY <1>2, <1>3, <1>4, <1>5, <1>6

\* A request that has got the answer about the address stays sound.
LEMMA WithIdentitySound ==
    ASSUME NEW q \in Request, NEW F, Sound(q, F), q.phase = "identified"
    PROVE  WithIdentity(q) \in Request /\ Sound(WithIdentity(q), F)
  <1> USE NoneAssumption, ClientsAssumption
  <1>1. /\ q.kind \in {"reassign", "change"} /\ q.body \in Spellings
        /\ IF q.holder = None THEN <<"free", Lower[q.body], None>> \in F
           ELSE q.holder \in Clients /\ <<"holds", q.holder, Lower[q.body]>> \in F
    BY DEF Sound, Arguments, HolderSeen
  <1>2. CASE q.kind = "change" /\ q.holder # None
    <2>1. WithIdentity(q) = Refused(q, "email_already_in_use")
      BY <1>2 DEF WithIdentity
    <2>2. Refused(q, "email_already_in_use") \in Request
      BY RefusedType DEF Reasons
    <2>3. Sound(Refused(q, "email_already_in_use"), F)
      BY <1>1, <1>2 DEF Refused, Request, Sound, RowSeen, RowUsed, HolderSeen, Arguments, Grounded
    <2>4. QED  BY <2>1, <2>2, <2>3
  <1>3. CASE q.kind = "reassign" /\ q.holder = None
    <2>1. WithIdentity(q) = Refused(q, "client_not_found")
      BY <1>3 DEF WithIdentity
    <2>2. Refused(q, "client_not_found") \in Request
      BY RefusedType DEF Reasons
    <2>3. Sound(Refused(q, "client_not_found"), F)
      BY <1>1, <1>3 DEF Refused, Request, Sound, RowSeen, RowUsed, HolderSeen, Arguments, Grounded
    <2>4. QED  BY <2>1, <2>2, <2>3
  <1>4. CASE q.kind = "reassign" /\ q.holder # None
    BY <1>1, <1>4 DEF WithIdentity, Request, Sound, RowSeen, RowUsed, HolderSeen, Arguments, Grounded
  <1>5. CASE q.kind = "change" /\ q.holder = None
    BY <1>1, <1>5 DEF WithIdentity, Request, Sound, RowSeen, RowUsed, HolderSeen, Arguments, Grounded
  <1>6. QED  BY <1>1, <1>2, <1>3, <1>4, <1>5
----
\* What is true now depends on the world outside alone.
LEMMA FactsUnchanged == ASSUME UNCHANGED outside PROVE Facts' = Facts
  BY DEF outside, Facts, Holders

\* History only grows, and takes in the present.
LEMMA FactsGrow ==
    ASSUME Observe
    PROVE  \A r \in Requests : facts[r] \subseteq facts'[r]
  BY DEF Observe

\* A request goes on as a sound q: the invariant holds again.
LEMMA ContinueStep ==
    ASSUME Inv, NEW r \in Requests, NEW q \in Request, Continue(r, q), Observe,
           request[r].phase # "publish", request[r] # q,
           Sound(q, facts[r]) \/ Sound(q, facts[r] \cup Facts)
    PROVE  Inv'
  <1>1. /\ request' = [request EXCEPT ![r] = q] /\ request \in [Requests -> Request]
        /\ UNCHANGED outside /\ UNCHANGED <<window, passed>> /\ Facts' = Facts
    BY FactsUnchanged DEF Continue, Inv, TypeOK
  <1>2. request'[r] = q /\ \A o \in Requests \ {r} : request'[o] = request[o]
    BY <1>1
  <1>3. TypeOK'
    <2>1. /\ email' \in [Users -> Emails \cup {None}] /\ had' \in [Users -> SUBSET Emails]
          /\ booking' \in [Bookings -> Rows] /\ changes' \in 0 .. MaxChanges
          /\ \A c, d \in Clients : email'[c] = email'[d] /\ c # d => email'[c] = None
          /\ window' \subseteq Payloads
      BY <1>1 DEF Inv, TypeOK, outside
    <2>2. request' \in [Requests -> Request]
      BY <1>1
    <2>3. CASE q.phase = "publish"
      <3>1. outcome[r] = "none" /\ outcome' = [outcome EXCEPT ![r] = "pending"] /\ applied' = applied
        BY <2>3 DEF Continue, Publisher!Call
      <3>2. QED  BY <1>1, <1>2, <2>1, <2>2, <2>3, <3>1 DEF Inv, TypeOK
    <2>4. CASE q.phase # "publish"
      <3>1. outcome' = outcome /\ applied' = applied
        BY <2>4 DEF Continue, publication
      <3>2. QED  BY <1>1, <1>2, <2>1, <2>2, <2>4, <3>1 DEF Inv, TypeOK
    <2>5. QED  BY <2>3, <2>4
  <1>4. facts'[r] = facts[r] \cup Facts
    BY <1>1, <1>2 DEF Observe
  <1>5. Observed'
    <2>1. ASSUME NEW o \in Requests, request'[o].phase \in Waiting PROVE Facts' \subseteq facts'[o]
      <3>1. CASE o = r
        BY <1>1, <1>4, <3>1
      <3>2. CASE o # r
        BY <1>1, <1>2, <2>1, <3>2 DEF Observe
      <3>3. QED  BY <3>1, <3>2
    <2>2. QED  BY <2>1 DEF Observed
  <1>6. AllSound'
    <2>1. ASSUME NEW o \in Requests PROVE Sound(request'[o], facts'[o])
      <3>1. CASE o = r
        BY <1>2, <1>4, <3>1, SoundMonotone
      <3>2. CASE o # r
        BY <1>2, <3>2, SoundMonotone, FactsGrow DEF Inv, AllSound
      <3>3. QED  BY <3>1, <3>2
    <2>2. QED  BY <2>1 DEF AllSound
  <1>7. QED  BY <1>3, <1>5, <1>6 DEF Inv

\* Requests and publishing stand still while the world changes: they stay sound.
LEMMA OutsideStep ==
    ASSUME Inv, Observe, TypeOK', UNCHANGED request
    PROVE  Inv'
  <1>1. Observed'
    BY DEF Observed, Observe
  <1>2. AllSound'
    BY SoundMonotone, FactsGrow DEF Inv, AllSound
  <1>3. QED  BY <1>1, <1>2 DEF Inv

LEMMA IdleIsRequest == IdleRequest \in Request
  <1>1. NoRow \in Rows
    BY DEF Rows
  <1>2. QED  BY <1>1 DEF IdleRequest, Request, Reasons

\* What a request knows when it arrives.
LEMMA ReassignArrives ==
    ASSUME NEW F, NEW b \in Bookings, NEW s \in Spellings
    PROVE  LET q == [IdleRequest EXCEPT !.phase = "booking", !.kind = "reassign", !.booking = b, !.body = s]
           IN  /\ q \in Request /\ q.phase = "booking" /\ q.kind = "reassign" /\ q.user = None
               /\ Sound(q, F)
  <1> DEFINE q == [IdleRequest EXCEPT !.phase = "booking", !.kind = "reassign", !.booking = b, !.body = s]
  <1>1. q \in Request
    BY IdleIsRequest DEF Request, Waiting
  <1>2. /\ q.phase = "booking" /\ q.kind = "reassign" /\ q.user = None
        /\ q.booking = b /\ q.body = s
    BY IdleIsRequest DEF Request, IdleRequest
  <1> HIDE DEF q
  <1>3. Sound(q, F)
    BY <1>2 DEF Sound, RowSeen, RowUsed, HolderSeen, Arguments, Grounded
  <1>4. QED  BY <1>1, <1>2, <1>3 DEF q

LEMMA ReminderArrives ==
    ASSUME NEW F, NEW b \in Bookings
    PROVE  LET q == [IdleRequest EXCEPT !.phase = "booking", !.kind = "reminder", !.booking = b]
           IN  /\ q \in Request /\ q.phase = "booking" /\ q.kind = "reminder" /\ q.user = None
               /\ Sound(q, F)
  <1> DEFINE q == [IdleRequest EXCEPT !.phase = "booking", !.kind = "reminder", !.booking = b]
  <1>1. q \in Request
    BY IdleIsRequest DEF Request, Waiting
  <1>2. /\ q.phase = "booking" /\ q.kind = "reminder" /\ q.user = None
        /\ q.booking = b /\ q.body = None
    BY IdleIsRequest DEF Request, IdleRequest
  <1> HIDE DEF q
  <1>3. Sound(q, F)
    BY <1>2 DEF Sound, RowSeen, RowUsed, HolderSeen, Arguments, Grounded
  <1>4. QED  BY <1>1, <1>2, <1>3 DEF q

LEMMA ChangeArrives ==
    ASSUME NEW F, NEW u \in Users, NEW s \in Spellings
    PROVE  LET q == [IdleRequest EXCEPT !.kind = "change", !.user = u, !.body = s]
           IN  /\ q \in Request /\ q.phase = "idle" /\ q.kind = "change" /\ q.user = u
               /\ Sound(q, F)
  <1> DEFINE q == [IdleRequest EXCEPT !.kind = "change", !.user = u, !.body = s]
  <1>1. q \in Request
    BY IdleIsRequest DEF Request, Waiting
  <1>2. /\ q.phase = "idle" /\ q.kind = "change" /\ q.user = u
        /\ q.booking = None /\ q.body = s
    BY IdleIsRequest DEF Request, IdleRequest
  <1> HIDE DEF q
  <1>3. Sound(q, F)
    BY <1>2 DEF Sound, RowSeen, RowUsed, HolderSeen, Arguments, Grounded
  <1>4. QED  BY <1>1, <1>2, <1>3 DEF q

LEMMA BeginStep ==
    ASSUME Inv, NEW r \in Requests, Begin(r), Observe
    PROVE  Inv'
  <1>1. request[r].phase = "idle"
    BY DEF Begin
  <1>2. CASE Reassign(r)
    <2>1. PICK b \in Bookings, s \in Spellings :
            Continue(r, [IdleRequest EXCEPT !.phase = "booking", !.kind = "reassign",
                                            !.booking = b, !.body = s])
      BY <1>2 DEF Reassign
    <2> DEFINE q == [IdleRequest EXCEPT !.phase = "booking", !.kind = "reassign",
                                        !.booking = b, !.body = s]
    <2>2. q \in Request /\ q.phase = "booking" /\ Sound(q, facts[r])
      BY ReassignArrives
    <2>3. Continue(r, q)
      BY <2>1
    <2> HIDE DEF q
    <2>4. QED  BY <1>1, <2>2, <2>3, ContinueStep
  <1>3. CASE Remind(r)
    <2>1. PICK b \in Bookings :
            Continue(r, [IdleRequest EXCEPT !.phase = "booking", !.kind = "reminder", !.booking = b])
      BY <1>3 DEF Remind
    <2> DEFINE q == [IdleRequest EXCEPT !.phase = "booking", !.kind = "reminder", !.booking = b]
    <2>2. q \in Request /\ q.phase = "booking" /\ Sound(q, facts[r])
      BY ReminderArrives
    <2>3. Continue(r, q)
      BY <2>1
    <2> HIDE DEF q
    <2>4. QED  BY <1>1, <2>2, <2>3, ContinueStep
  <1>4. CASE ChangeEmail(r)
    <2>1. PICK u \in Users, s \in Spellings :
            \E q \in GetUser([IdleRequest EXCEPT !.kind = "change", !.user = u, !.body = s]) :
                Continue(r, q)
      BY <1>4 DEF ChangeEmail
    <2> DEFINE p == [IdleRequest EXCEPT !.kind = "change", !.user = u, !.body = s]
    <2>2. PICK q \in GetUser(p) : Continue(r, q)
      BY <2>1
    <2>3. p \in Request /\ p.phase = "idle" /\ p.kind = "change" /\ p.user = u /\ Sound(p, facts[r])
      BY ChangeArrives
    <2> HIDE DEF p
    <2>4. q \in Request /\ Sound(q, facts[r])
      BY <2>3, GetUserSound DEF Inv
    <2>5. q.phase # "idle"
      BY <2>3 DEF GetUser, WithUser, Refused, Request
    <2>6. QED  BY <1>1, <2>2, <2>4, <2>5, ContinueStep
  <1>5. QED  BY <1>2, <1>3, <1>4 DEF Begin

LEMMA ReadBookingStep ==
    ASSUME Inv, NEW r \in Requests, ReadBooking(r), Observe
    PROVE  Inv'
  <1> DEFINE p == request[r]
             q == [p EXCEPT !.phase = "details", !.row = booking[p.booking]]
  <1>1. /\ p \in Request /\ p.phase = "booking" /\ Sound(p, facts[r])
        /\ Facts \subseteq facts[r] /\ Continue(r, q)
    BY DEF ReadBooking, Inv, TypeOK, AllSound, Observed, Waiting
  <1>2. p.booking \in Bookings /\ p.kind \in {"reassign", "reminder"}
    BY <1>1 DEF Sound, Arguments
  <1>3. booking[p.booking] \in Rows /\ <<"row", p.booking, booking[p.booking]>> \in facts[r]
    BY <1>1, <1>2 DEF Inv, TypeOK, Facts
  <1> HIDE DEF p
  <1>4. q \in Request /\ q.phase = "details"
    BY <1>1, <1>3 DEF Request, Waiting
  <1>5. Sound(q, facts[r])
    BY <1>1, <1>2, <1>3 DEF Request, Sound, RowSeen, RowUsed, HolderSeen, Arguments, Grounded
  <1> HIDE DEF q
  <1>6. QED  BY <1>1, <1>4, <1>5, ContinueStep DEF p

LEMMA CheckBookingStep ==
    ASSUME Inv, NEW r \in Requests, CheckBooking(r), Observe
    PROVE  Inv'
  <1>1. PICK q \in WithBooking(request[r]) : Continue(r, q)
    BY DEF CheckBooking
  <1>2. request[r] \in Request /\ request[r].phase = "details" /\ Sound(request[r], facts[r])
    BY DEF CheckBooking, Inv, TypeOK, AllSound
  <1>3. q \in Request /\ Sound(q, facts[r])
    BY <1>2, WithBookingSound DEF Inv
  <1>4. q.phase # "details"
    BY <1>2 DEF WithBooking, GetUser, WithUser, Refused, Request
  <1>5. QED  BY <1>1, <1>2, <1>3, <1>4, ContinueStep

LEMMA UserAnswersStep ==
    ASSUME Inv, NEW r \in Requests, UserAnswers(r), Observe
    PROVE  Inv'
  <1> DEFINE p == request[r]
  <1>1. p \in Request /\ p.phase = "user" /\ Sound(p, facts[r])
    BY DEF UserAnswers, Inv, TypeOK, AllSound
  <1>2. /\ p.kind \in {"reminder", "change"} /\ p.user \in Users
        /\ p.kind = "reminder" => /\ <<"row", p.booking, p.row>> \in facts[r]
                                  /\ p.row = [exists |-> TRUE, client |-> p.user, ready |-> TRUE]
    BY <1>1 DEF Sound, Arguments, RowSeen, RowUsed
  <1>3. CASE \E e \in had[p.user] : Continue(r, WithUser(p, e))
    <2>1. PICK e \in had[p.user] : Continue(r, WithUser(p, e))
      BY <1>3
    <2>2. e \in Emails
      BY <1>2 DEF Inv, TypeOK
    <2>3. WithUser(p, e) \in Request /\ Sound(WithUser(p, e), facts[r])
      BY <1>1, <1>2, <2>2, WithUserSound
    <2>4. WithUser(p, e).phase # "user"
      BY <1>1 DEF WithUser, Refused, Request
    <2>5. QED  BY <1>1, <2>1, <2>3, <2>4, ContinueStep
  <1>4. CASE Continue(r, Refused(p, IF p.kind = "reminder" THEN "client_not_found" ELSE "user_not_found"))
    <2> DEFINE q == Refused(p, IF p.kind = "reminder" THEN "client_not_found" ELSE "user_not_found")
    <2>1. q \in Request
      BY <1>1, RefusedType DEF Reasons
    <2>2. q.phase = "refused" /\ Sound(q, facts[r])
      BY <1>1, <1>2 DEF Refused, Request, Sound, RowSeen, RowUsed, HolderSeen, Arguments, Grounded
    <2>3. Continue(r, q)
      BY <1>4
    <2> HIDE DEF q
    <2>4. QED  BY <1>1, <2>1, <2>2, <2>3, ContinueStep
  <1>5. QED  BY <1>3, <1>4 DEF UserAnswers

LEMMA IdentifyStep ==
    ASSUME Inv, NEW r \in Requests, Identify(r), Observe
    PROVE  Inv'
  <1> USE NoneAssumption, ClientsAssumption, LowerAssumption
  <1> DEFINE p == request[r]
             found == Holders(Address(p))
             h == IF found = {} THEN None ELSE CHOOSE c \in found : TRUE
             q == [p EXCEPT !.phase = "identified", !.holder = h]
  <1>1. /\ p \in Request /\ p.phase = "identity" /\ Sound(p, facts[r])
        /\ Facts \subseteq facts[r] /\ Continue(r, q)
    BY DEF Identify, Inv, TypeOK, AllSound, Observed, Waiting, AwaitsUsers
  <1>2. p.kind \in {"reassign", "change"} /\ p.body \in Spellings /\ Lower[p.body] \in Emails
    BY <1>1 DEF Sound, Arguments
  <1>3. CASE found = {}
    <2>1. h = None /\ <<"free", Lower[p.body], None>> \in facts[r]
      BY <1>1, <1>2, <1>3 DEF Facts, Address
    <2> HIDE DEF h, p
    <2>2. q \in Request /\ q.phase = "identified"
      BY <1>1, <2>1 DEF Request, Waiting, AwaitsUsers
    <2>3. Sound(q, facts[r])
      BY <1>1, <1>2, <2>1 DEF Request, Sound, RowSeen, RowUsed, HolderSeen, Arguments, Grounded
    <2> HIDE DEF q
    <2>4. QED  BY <1>1, <2>2, <2>3, ContinueStep DEF p
  <1>4. CASE found # {}
    <2>1. h \in found
      BY <1>4
    <2>2. h \in Clients /\ email[h] = Lower[p.body]
      BY <2>1 DEF Holders, Address
    <2>3. <<"holds", h, Lower[p.body]>> \in facts[r]
      BY <1>1, <2>2 DEF Facts
    <2> HIDE DEF h, p
    <2>4. q \in Request /\ q.phase = "identified"
      BY <1>1, <2>2 DEF Request, Waiting, AwaitsUsers
    <2>5. Sound(q, facts[r])
      BY <1>1, <1>2, <2>2, <2>3 DEF Request, Sound, RowSeen, RowUsed, HolderSeen, Arguments, Grounded
    <2> HIDE DEF q
    <2>6. QED  BY <1>1, <2>4, <2>5, ContinueStep DEF p
  <1>5. QED  BY <1>3, <1>4

LEMMA DecideStep ==
    ASSUME Inv, NEW r \in Requests, Decide(r), Observe
    PROVE  Inv'
  <1>1. /\ request[r] \in Request /\ request[r].phase = "identified"
        /\ Sound(request[r], facts[r]) /\ Continue(r, WithIdentity(request[r]))
    BY DEF Decide, Inv, TypeOK, AllSound
  <1>2. WithIdentity(request[r]) \in Request /\ Sound(WithIdentity(request[r]), facts[r])
    BY <1>1, WithIdentitySound
  <1>3. request[r].kind \in {"reassign", "change"}
    BY <1>1 DEF Sound, Arguments
  <1>4. WithIdentity(request[r]).phase # "identified"
    BY <1>1, <1>3 DEF WithIdentity, Refused, Request
  <1>5. QED  BY <1>1, <1>2, <1>4, ContinueStep

LEMMA FailStep ==
    ASSUME Inv, NEW r \in Requests, UsersFail(r) \/ DatabaseFails(r), Observe
    PROVE  Inv'
  <1>1. /\ request[r] \in Request /\ request[r].phase \in Waiting
        /\ Sound(request[r], facts[r]) /\ Continue(r, Refused(request[r], "error"))
    BY DEF UsersFail, DatabaseFails, Waiting, Inv, TypeOK, AllSound
  <1>2. Refused(request[r], "error") \in Request /\ Sound(Refused(request[r], "error"), facts[r])
    BY <1>1, GivenUpSound
  <1>3. Refused(request[r], "error").phase = "refused"
    BY <1>1 DEF Refused, Request
  <1>4. QED  BY <1>1, <1>2, <1>3, ContinueStep DEF Waiting, AwaitsUsers

LEMMA PublishEndsStep ==
    ASSUME Inv, NEW r \in Requests, PublishEnds(r), Observe
    PROVE  Inv'
  <1>1. /\ outcome[r] = "pending" /\ applied' = applied
        /\ \E end \in {"returned", "redirected", "raised"} : outcome' = [outcome EXCEPT ![r] = end]
    BY DEF PublishEnds, Publisher!Return, Publisher!Redirect, Publisher!Raise
  <1>2. TypeOK'
    BY <1>1 DEF PublishEnds, Inv, TypeOK, outside
  <1>3. QED  BY <1>2, OutsideStep DEF PublishEnds

\* A payload is one, and says which reminder it is.
LEMMA PayloadType ==
    ASSUME NEW r \in Requests, NEW q \in Request, Arguments(q)
    PROVE  Payload(r, q) \in Payloads
  <1>1. q.kind = "change" => Address(q) \in Emails
    BY LowerAssumption DEF Arguments, Address
  <1>2. QED  BY <1>1 DEF Payload, Payloads, Request

LEMMA AcceptStep ==
    ASSUME Inv, NEW r \in Requests, Accept(r), Observe
    PROVE  Inv'
  <1>1. Payload(r, request[r]) \in Payloads
    BY PayloadType DEF Inv, TypeOK, AllSound, Sound
  <1>2. outcome[r] # "none" /\ applied' = applied \cup {r} /\ outcome' = outcome
    BY DEF Accept, Publisher!Apply
  <1>3. TypeOK'
    BY <1>1, <1>2 DEF Accept, Inv, TypeOK, outside
  <1>4. QED  BY <1>3, OutsideStep DEF Accept

LEMMA WorldStep ==
    ASSUME Inv, Forget \/ ChangeUser \/ ChangeBooking, Observe
    PROVE  Inv'
  <1>1. CASE Forget
    <2>1. TypeOK'
      BY <1>1 DEF Forget, Inv, TypeOK, outside, publication
    <2>2. QED  BY <1>1, <2>1, OutsideStep DEF Forget
  <1>2. CASE ChangeUser
    <2>1. PICK u \in Users, e \in Emails \cup {None} :
            /\ u \in Clients => Holders(e) \subseteq {u} \/ e = None
            /\ email' = [email EXCEPT ![u] = e]
            /\ had' = [had EXCEPT ![u] = @ \cup ({e} \ {None})]
      BY <1>2 DEF ChangeUser
    <2>2. email' \in [Users -> Emails \cup {None}] /\ had' \in [Users -> SUBSET Emails]
      BY <2>1 DEF Inv, TypeOK
    <2>3. \A c, d \in Clients : email'[c] = email'[d] /\ c # d => email'[c] = None
      BY <2>1, ClientsAssumption DEF Inv, TypeOK, Holders
    <2>4. changes' \in 0 .. MaxChanges
      BY <1>2, MaxChangesAssumption DEF ChangeUser, Inv, TypeOK
    <2>5. TypeOK'
      BY <1>2, <2>2, <2>3, <2>4 DEF ChangeUser, Inv, TypeOK, publication
    <2>6. QED  BY <1>2, <2>5, OutsideStep DEF ChangeUser
  <1>3. CASE ChangeBooking
    <2>1. changes' \in 0 .. MaxChanges
      BY <1>3, MaxChangesAssumption DEF ChangeBooking, Inv, TypeOK
    <2>2. booking' \in [Bookings -> Rows]
      BY <1>3 DEF ChangeBooking, Inv, TypeOK
    <2>3. TypeOK'
      BY <1>3, <2>1, <2>2 DEF ChangeBooking, Inv, TypeOK, publication
    <2>4. QED  BY <1>3, <2>3, OutsideStep DEF ChangeBooking
  <1>4. QED  BY <1>1, <1>2, <1>3

LEMMA CrashStep ==
    ASSUME Inv, Crash, Observe
    PROVE  Inv'
  <1>1. \A r \in Requests : request'[r] \in {request[r], [request[r] EXCEPT !.phase = "lost"]}
    BY DEF Crash
  <1>2. \A r \in Requests : request'[r] \in Request /\ Sound(request'[r], facts[r])
    BY <1>1, GivenUpSound DEF Inv, TypeOK, AllSound
  <1>3. ASSUME NEW r \in Requests
        PROVE  /\ request'[r].phase \notin Waiting
               /\ request'[r].phase = "publish" <=> request[r].phase = "publish"
    <2>1. request[r] \in Request
      BY DEF Inv, TypeOK
    <2>2. CASE request[r].phase \in Waiting
      <3>1. request'[r] = [request[r] EXCEPT !.phase = "lost"]
        BY <2>2 DEF Crash
      <3>2. request'[r].phase = "lost"
        BY <2>1, <3>1 DEF Request
      <3>3. QED  BY <2>2, <3>2 DEF Waiting, AwaitsUsers
    <2>3. CASE request[r].phase \notin Waiting
      <3>1. request'[r] = request[r]
        BY <2>3 DEF Crash
      <3>2. QED  BY <2>3, <3>1
    <2>4. QED  BY <2>2, <2>3
  <1>5. /\ \A r \in Requests : /\ outcome'[r] \in {"none", "pending", "returned", "redirected", "raised", "lost"}
                               /\ outcome'[r] # "none" <=> outcome[r] # "none"
        /\ outcome' \in [Requests -> {"none", "pending", "returned", "redirected", "raised", "lost"}]
        /\ applied' = applied
    BY DEF Crash, Publisher!Crash, Inv, TypeOK
  <1>6. TypeOK'
    <2>1. request' \in [Requests -> Request]
      BY <1>2 DEF Crash
    <2>2. QED  BY <1>3, <1>5, <2>1 DEF Crash, Inv, TypeOK, outside
  <1>7. Observed'
    BY <1>3 DEF Observed
  <1>8. AllSound'
    BY <1>2, SoundMonotone, FactsGrow DEF AllSound
  <1>9. QED  BY <1>6, <1>7, <1>8 DEF Inv

LEMMA InvInit == Init => Inv
  <1> SUFFICES ASSUME Init PROVE Inv
    OBVIOUS
  <1>1. TypeOK
    <2>1. had \in [Users -> SUBSET Emails] /\ changes \in 0 .. MaxChanges
      BY MaxChangesAssumption DEF Init
    <2>2. request \in [Requests -> Request] /\ \A r \in Requests : request[r].phase = "idle"
      BY IdleIsRequest DEF Init, IdleRequest
    <2>3. /\ outcome \in [Requests -> {"none", "pending", "returned", "redirected", "raised", "lost"}]
          /\ \A r \in Requests : outcome[r] = "none"
          /\ applied = {}
      BY DEF Init, Publisher!Init
    <2>4. QED  BY <2>1, <2>2, <2>3 DEF Init, TypeOK
  <1>2. Observed
    BY DEF Init, Observed, IdleRequest, Waiting, AwaitsUsers
  <1>3. \A F : Sound(IdleRequest, F)
    BY DEF IdleRequest, Sound, RowSeen, RowUsed, HolderSeen, Arguments, Grounded
  <1>4. AllSound
    BY <1>3 DEF Init, AllSound
  <1>5. QED  BY <1>1, <1>2, <1>4 DEF Inv

LEMMA InvStep == Inv /\ [Next]_vars => Inv'
  <1> SUFFICES ASSUME Inv, [Next]_vars PROVE Inv'
    OBVIOUS
  <1>1. CASE UNCHANGED vars
    <2>1. TypeOK'
      BY <1>1 DEF Inv, TypeOK, vars
    <2>2. Facts' = Facts
      BY <1>1, FactsUnchanged DEF vars, outside
    <2>3. Observed' /\ AllSound'
      BY <1>1, <2>2 DEF Inv, Observed, AllSound, vars
    <2>4. QED  BY <2>1, <2>3 DEF Inv
  <1>2. CASE Next
    <2>1. Step /\ Observe
      BY <1>2 DEF Next
    <2>2. ASSUME NEW r \in Requests,
                 \/ Begin(r) \/ ReadBooking(r) \/ CheckBooking(r) \/ UserAnswers(r) \/ Identify(r)
                 \/ Decide(r) \/ UsersFail(r) \/ DatabaseFails(r) \/ PublishEnds(r) \/ Accept(r)
          PROVE  Inv'
      BY <2>1, <2>2, BeginStep, ReadBookingStep, CheckBookingStep, UserAnswersStep, IdentifyStep,
         DecideStep, FailStep, PublishEndsStep, AcceptStep
    <2>3. CASE Forget \/ ChangeUser \/ ChangeBooking
      BY <2>1, <2>3, WorldStep
    <2>4. CASE Crash
      BY <2>1, <2>4, CrashStep
    <2>5. QED  BY <2>1, <2>2, <2>3, <2>4 DEF Step
  <1>3. QED  BY <1>1, <1>2

\* The inductive invariant: every request knows only what has been true since it began.
LEMMA InvHolds == Spec => []Inv
  BY InvInit, InvStep, PTL DEF Spec

\* The variables keep their types; a command is published at most once per request
\* and only by a request that is done with its checks.
THEOREM TypeCorrect == Spec => []TypeOK
  <1>1. Inv => TypeOK
    BY DEF Inv
  <1>2. QED  BY <1>1, InvHolds, PTL

\* Every command that goes out rests on what was true while its request ran,
\* whatever changes between its checks.
THEOREM CommandsAreGrounded == Spec => []CommandsRestOnFacts
  <1>1. ASSUME Inv PROVE CommandsRestOnFacts
    <2> SUFFICES ASSUME NEW r \in Requests
                 PROVE
        LET q == request[r] IN
        /\ Published(r, "reassign") =>
             /\ <<"holds", q.user, Lower[q.body]>> \in facts[r]
             /\ \E row \in Rows : row.exists /\ <<"row", q.booking, row>> \in facts[r]
        /\ Published(r, "reminder") =>
             <<"row", q.booking, [exists |-> TRUE, client |-> q.user, ready |-> TRUE]>> \in facts[r]
        /\ Published(r, "change") => <<"free", Lower[q.body], None>> \in facts[r]
      BY DEF CommandsRestOnFacts
    <2>1. request[r] \in Request /\ request[r].row \in Rows /\ Sound(request[r], facts[r])
      BY <1>1 DEF Inv, TypeOK, AllSound, Request
    <2>2. QED  BY <2>1 DEF Published, Sound, RowSeen, RowUsed, Grounded
  <1>2. QED  BY <1>1, InvHolds, PTL

\* So does every refusal that speaks of a booking, a client or an address.
THEOREM RefusalsAreGrounded == Spec => []RefusalsRestOnFacts
  <1>1. ASSUME Inv PROVE RefusalsRestOnFacts
    BY <1>1 DEF Inv, AllSound, Sound, Grounded, RefusalsRestOnFacts, RefusedFor
  <1>2. QED  BY <1>1, InvHolds, PTL
----
\* The steps of a request before it publishes are all of one form.
LEMMA RequestStep ==
    ASSUME NEW r \in Requests,
           \/ Begin(r) \/ ReadBooking(r) \/ CheckBooking(r) \/ UserAnswers(r) \/ Identify(r)
           \/ Decide(r) \/ UsersFail(r) \/ DatabaseFails(r)
    PROVE  request[r].phase # "publish" /\ \E q : Continue(r, q)
BY DEF Begin, Reassign, Remind, ChangeEmail, ReadBooking, CheckBooking, UserAnswers,
       Identify, Decide, UsersFail, DatabaseFails, AwaitsUsers

\* A reminder's payload that event-receiver remembers names a reminder it passed on.
Stamped == \A p \in window : p.kind = "reminder" => p.stamp \in passed

\* No reminder is taken for a duplicate of another, of the same booking and client.
THEOREM RemindersGetThrough == Spec => []RemindersNotSuppressed
  <1> DEFINE J == Stamped /\ RemindersNotSuppressed
  <1>1. Init => J
    BY DEF Init, Stamped, RemindersNotSuppressed, Publisher!Init
  <1>2. ASSUME Inv, J, [Next]_vars PROVE J'
    <2>1. ASSUME NEW r \in applied PROVE r \in Requests /\ request[r].phase = "publish"
      BY <1>2 DEF Inv, TypeOK
    <2>2. CASE UNCHANGED <<applied, window, passed, request>>
      BY <1>2, <2>2 DEF Stamped, RemindersNotSuppressed
    <2>3. ASSUME NEW r \in Requests, NEW q, Continue(r, q), request[r].phase # "publish" PROVE J'
      <3>1. applied' = applied /\ window' = window /\ passed' = passed
        BY <2>3 DEF Continue, publication, Publisher!Call
      <3>2. \A o \in applied : request'[o] = request[o]
        BY <2>1, <2>3 DEF Continue, Inv, TypeOK
      <3>3. QED  BY <1>2, <3>1, <3>2 DEF Stamped, RemindersNotSuppressed
    <2>4. ASSUME NEW r \in Requests, Accept(r) PROVE J'
      <3> DEFINE p == Payload(r, request[r])
      <3>1. /\ applied' = applied \cup {r} /\ window' = window \cup {p}
            /\ passed' = IF p \in window THEN passed ELSE passed \cup {r}
            /\ request' = request
        BY <2>4 DEF Accept, Publisher!Apply
      <3>2. p.kind = request[r].kind /\ (request[r].kind = "reminder" => p.stamp = r)
        BY DEF Payload
      <3> HIDE DEF p
      <3>3. request[r].kind = "reminder" => r \in passed'
        BY <1>2, <3>1, <3>2 DEF Stamped
      <3>4. QED  BY <1>2, <3>1, <3>2, <3>3 DEF Stamped, RemindersNotSuppressed
    <2>5. CASE Forget
      BY <1>2, <2>5 DEF Forget, publication, Stamped, RemindersNotSuppressed
    <2>6. CASE Crash
      <3>1. applied' = applied /\ window' = window /\ passed' = passed
        BY <2>6 DEF Crash, Publisher!Crash
      <3>2. \A o \in Requests : request'[o].kind = request[o].kind
        BY <1>2, <2>6 DEF Crash, Inv, TypeOK, Request
      <3>3. QED  BY <1>2, <2>1, <3>1, <3>2 DEF Stamped, RemindersNotSuppressed
    <2>7. CASE ChangeUser \/ ChangeBooking
      BY <2>2, <2>7 DEF ChangeUser, ChangeBooking, publication
    <2>8. ASSUME NEW r \in Requests, PublishEnds(r) PROVE J'
      BY <2>2, <2>8 DEF PublishEnds, Publisher!Return, Publisher!Redirect, Publisher!Raise
    <2>9. ASSUME NEW r \in Requests,
                 \/ Begin(r) \/ ReadBooking(r) \/ CheckBooking(r) \/ UserAnswers(r) \/ Identify(r)
                 \/ Decide(r) \/ UsersFail(r) \/ DatabaseFails(r)
          PROVE  J'
      BY <2>3, <2>9, RequestStep
    <2>10. QED
      BY <1>2, <2>2, <2>4, <2>5, <2>6, <2>7, <2>8, <2>9 DEF Next, Step, vars
  <1>3. J => RemindersNotSuppressed
    OBVIOUS
  <1>4. QED  BY <1>1, <1>2, <1>3, InvHolds, PTL DEF Spec
----
(***************************************************************************)
(* Publishing.  The routes use publish as Publication says it may be used, *)
(* and so may rely on what it promises, which EventPublisher keeps.        *)
(***************************************************************************)

\* Every step of the routes is one of Publication or leaves its variables alone.
LEMMA PublicationStep ==
    ASSUME [Next]_vars
    PROVE  [Publisher!Next]_(Publisher!vars)
<1>1. ASSUME NEW r \in Requests,
             \/ Begin(r) \/ ReadBooking(r) \/ CheckBooking(r) \/ UserAnswers(r) \/ Identify(r)
             \/ Decide(r) \/ UsersFail(r) \/ DatabaseFails(r)
      PROVE  Publisher!Call(r) \/ UNCHANGED Publisher!vars
  <2>1. PICK q : Continue(r, q) BY <1>1, RequestStep
  <2> QED BY <2>1 DEF Continue, publication, Publisher!vars
<1>2. ASSUME NEW r \in Requests, PublishEnds(r)
      PROVE  Publisher!Return(r) \/ Publisher!Redirect(r) \/ Publisher!Raise(r)
  BY <1>2 DEF PublishEnds
<1>3. ASSUME NEW r \in Requests, Accept(r) PROVE Publisher!Apply(r) BY <1>3 DEF Accept
<1>4. ASSUME Forget \/ ChangeUser \/ ChangeBooking \/ UNCHANGED vars
      PROVE  UNCHANGED Publisher!vars
  BY <1>4 DEF Forget, ChangeUser, ChangeBooking, vars, publication, Publisher!vars
<1>5. ASSUME Crash PROVE Publisher!Crash BY <1>5 DEF Crash
<1> QED BY <1>1, <1>2, <1>3, <1>4, <1>5 DEF Next, Step, Publisher!Next

\* The composition does to outcome and applied what Publication allows and nothing else:
\* the routes publish once per request, after their checks, and await the end.
THEOREM PublicationIsRespected == Spec => Publisher!Safety
<1>1. Init => Publisher!Init BY DEF Init
<1>2. [Next]_vars => [Publisher!Next]_(Publisher!vars) BY PublicationStep
<1> QED BY <1>1, <1>2, PTL DEF Spec, Publisher!Safety

\* A request that has been handed to publish does not change any more.
LEMMA CommandStays ==
    ASSUME Inv, [Next]_vars, NEW r \in Requests, outcome[r] # "none"
    PROVE  outcome'[r] # "none" /\ request'[r] = request[r]
<1>1. request[r].phase = "publish" /\ r \in Requests BY DEF Inv, TypeOK
<1>2. ASSUME NEW o \in Requests,
             \/ Begin(o) \/ ReadBooking(o) \/ CheckBooking(o) \/ UserAnswers(o) \/ Identify(o)
             \/ Decide(o) \/ UsersFail(o) \/ DatabaseFails(o)
      PROVE  request'[r] = request[r] /\ outcome'[r] = outcome[r]
  <2>1. o # r /\ \E q : Continue(o, q) BY <1>1, <1>2, RequestStep
  <2> QED BY <2>1 DEF Continue, Publisher!Call, publication, Inv, TypeOK
<1>3. ASSUME NEW o \in Requests, PublishEnds(o) \/ Accept(o)
      PROVE  request'[r] = request[r] /\ outcome'[r] # "none"
  BY <1>3 DEF PublishEnds, Accept, Publisher!Return, Publisher!Redirect, Publisher!Raise,
              Publisher!Apply, Inv, TypeOK
<1>4. ASSUME Forget \/ ChangeUser \/ ChangeBooking \/ UNCHANGED vars
      PROVE  request' = request /\ outcome' = outcome
  BY <1>4 DEF Forget, ChangeUser, ChangeBooking, vars, publication
<1>5. ASSUME Crash PROVE request'[r] = request[r] /\ outcome'[r] # "none"
  BY <1>1, <1>5 DEF Crash, Publisher!Crash, Waiting, AwaitsUsers
<1> QED BY <1>2, <1>3, <1>4, <1>5 DEF Next, Step

\* A command does not change once it is handed to publish, so every attempt and every
\* retry carries the payload that was checked, and event-receiver can tell it is the same.
THEOREM CommandsAreFixed ==
    Spec => [][\A r \in Requests : outcome[r] # "none" =>
                 outcome'[r] # "none" /\ Payload(r, request'[r]) = Payload(r, request[r])]_vars
<1>1. Inv /\ [Next]_vars =>
        [\A r \in Requests : outcome[r] # "none" =>
           outcome'[r] # "none" /\ Payload(r, request'[r]) = Payload(r, request[r])]_vars
  BY CommandStays
<1> QED BY <1>1, InvHolds, PTL DEF Spec

\* The payload of a command that was passed on.
PassedOn(payload) == \E s \in passed : Payload(s, request[s]) = payload

\* event-receiver accepts or forgets, or keeps what it has.
LEMMA ReceiverStep ==
    ASSUME [Next]_vars
    PROVE  \/ \E r \in Requests : Accept(r)
           \/ window' \subseteq window /\ UNCHANGED <<applied, passed>>
<1>1. ASSUME NEW r \in Requests,
             \/ Begin(r) \/ ReadBooking(r) \/ CheckBooking(r) \/ UserAnswers(r) \/ Identify(r)
             \/ Decide(r) \/ UsersFail(r) \/ DatabaseFails(r)
      PROVE  UNCHANGED <<window, applied, passed>>
  <2>1. PICK q : Continue(r, q) BY <1>1, RequestStep
  <2> QED BY <2>1 DEF Continue, publication, Publisher!Call
<1>2. ASSUME NEW r \in Requests, PublishEnds(r) PROVE UNCHANGED <<window, applied, passed>>
  BY <1>2 DEF PublishEnds, Publisher!Return, Publisher!Redirect, Publisher!Raise
<1>3. ASSUME ChangeUser \/ ChangeBooking \/ Crash \/ UNCHANGED vars
      PROVE  UNCHANGED <<window, applied, passed>>
  BY <1>3 DEF ChangeUser, ChangeBooking, Crash, Publisher!Crash, vars, publication
<1>4. ASSUME Forget PROVE window' \subseteq window /\ UNCHANGED <<applied, passed>>
  BY <1>4 DEF Forget, publication
<1> QED BY <1>1, <1>2, <1>3, <1>4 DEF Next, Step

\* Deduplication at event-receiver costs no command its effect, of whatever route and
\* however long ago: whatever it accepted, it has passed on a command that says the same.
THEOREM AcceptedIsPassedOn ==
    Spec => [](\A r \in applied : \E s \in passed :
                 Payload(s, request[s]) = Payload(r, request[r]))
<1> DEFINE Kept == /\ \A payload \in window : PassedOn(payload)
                   /\ \A r \in applied : PassedOn(Payload(r, request[r]))
<1>1. Init => Kept BY DEF Init, Publisher!Init
<1>2. ASSUME Inv, Kept, [Next]_vars PROVE Kept'
  <2>1. \A r \in applied \cup passed : r \in Requests /\ request'[r] = request[r]
    BY <1>2, CommandStays DEF Inv, TypeOK
  <2>2. ASSUME NEW payload, PassedOn(payload), passed \subseteq passed' PROVE PassedOn(payload)'
    BY <2>1, <2>2 DEF PassedOn
  <2>3. ASSUME NEW r \in Requests, Accept(r) PROVE Kept'
    <3> DEFINE p == Payload(r, request[r])
    <3>1. /\ window' = window \cup {p} /\ applied' = applied \cup {r} /\ request' = request
          /\ passed' = IF p \in window THEN passed ELSE passed \cup {r}
      BY <2>3 DEF Accept, Publisher!Apply
    <3>2. PassedOn(p)'
      <4>1. CASE p \in window
        <5>1. PassedOn(p) BY <1>2, <4>1
        <5> QED BY <3>1, <4>1, <5>1 DEF PassedOn
      <4>2. CASE p \notin window BY <3>1, <4>2 DEF PassedOn
      <4> QED BY <4>1, <4>2
    <3>3. passed \subseteq passed' BY <3>1
    <3>4. \A payload \in window' : PassedOn(payload)' BY <1>2, <2>2, <3>1, <3>2, <3>3
    <3>5. \A o \in applied' : PassedOn(Payload(o, request[o]))' BY <1>2, <2>2, <3>1, <3>2, <3>3
    <3> QED BY <3>4, <3>5
  <2>4. ASSUME window' \subseteq window, UNCHANGED <<applied, passed>> PROVE Kept'
    <3>1. \A payload \in window' : PassedOn(payload)' BY <1>2, <2>2, <2>4
    <3>2. \A r \in applied' : Payload(r, request'[r]) = Payload(r, request[r]) BY <2>1, <2>4
    <3>3. \A r \in applied' : PassedOn(Payload(r, request[r])) BY <1>2, <2>4
    <3> QED BY <2>1, <2>4, <3>1, <3>2, <3>3 DEF PassedOn
  <2> QED BY <1>2, <2>3, <2>4, ReceiverStep
<1>3. Kept => \A r \in applied : \E s \in passed :
                 Payload(s, request[s]) = Payload(r, request[r])
  BY DEF PassedOn
<1> QED BY <1>1, <1>2, <1>3, InvHolds, PTL DEF Spec
====
