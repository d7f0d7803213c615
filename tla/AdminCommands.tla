---- MODULE AdminCommands ----
(***************************************************************************)
(* The three routes that change something outside event-admin (routes.py): *)
(* reassign-client, send-client-reminder and change-email.  Each checks a  *)
(* booking and users, one await after the other, and then publishes a      *)
(* command.  What it has checked can change before the command goes out,   *)
(* and a user it was told of may come from the users cache.                *)
(***************************************************************************)
EXTENDS Integers

CONSTANTS
    Users,      \* the ids of event-users
    Clients,    \* those with the role "client"
    Emails,     \* addresses, in lower case as event-users keeps them
    Spellings,  \* addresses as an admin may type them
    Lower,      \* str.lower
    Bookings,   \* booking uids, also of bookings that do not exist
    Requests,   \* requests, each with at most one command
    None,       \* no user, no address, no booking
    MaxChanges  \* bound on the changes at event-users and in the bookings table

ASSUME ClientsAssumption == Clients \subseteq Users
ASSUME LowerAssumption == Lower \in [Spellings -> Emails]
ASSUME NoneAssumption == None \notin Users \cup Emails \cup Spellings \cup Bookings
ASSUME MaxChangesAssumption == MaxChanges \in Nat

VARIABLES
    email,    \* event-users: the address of each user, None for no such user
    had,      \* the addresses of each user so far, which the users cache may hold
    booking,  \* the bookings table
    changes,  \* how often email and booking have changed
    request,  \* each request: where it is and what it knows
    facts,    \* history: what has been true since the request began
    outcome,  \* of Publication: the call of publish of each request
    applied,  \* of Publication: the commands event-receiver has accepted
    window,   \* payloads event-receiver accepted in the last ten minutes
    passed    \* the commands it passed on to the services that execute them

publication == <<outcome, applied>>
outside == <<email, had, booking, changes>>
vars == <<email, had, booking, changes, request, facts, outcome, applied, window, passed>>

Publisher == INSTANCE Publication WITH Publishes <- Requests

\* A bookings row: the client and whether start and status allow a reminder.
NoRow == [exists |-> FALSE, client |-> None, ready |-> FALSE]
Rows == {NoRow} \cup [exists : {TRUE}, client : Users \cup {None}, ready : BOOLEAN]

\* "details" awaits the rest of get_booking_details, "user" get_user, "identity"
\* event-users' answer to get_user_by_email_role and "identified" its arrival.
AwaitsUsers == {"user", "identity", "identified"}
Waiting == {"booking", "details"} \cup AwaitsUsers
Reasons == {"", "booking_not_found", "no_client", "not_eligible", "client_not_found",
            "user_not_found", "not_a_client", "email_unchanged", "email_already_in_use", "error"}

\* "user" is the client a booking gets or has, or whose address is to change;
\* "old" an address get_user returned, "holder" the answer to get_user_by_email_role.
Request == [phase : {"idle", "publish", "refused", "lost"} \cup Waiting,
            kind : {"", "reassign", "reminder", "change"}, booking : Bookings \cup {None},
            body : Spellings \cup {None}, row : Rows, user : Users \cup {None},
            old : Emails \cup {None}, holder : Users \cup {None}, reason : Reasons]
IdleRequest == [phase |-> "idle", kind |-> "", booking |-> None, body |-> None, row |-> NoRow,
                user |-> None, old |-> None, holder |-> None, reason |-> ""]

\* What a command says.
Payloads == [kind : {"", "reassign", "reminder", "change"}, booking : Bookings \cup {None},
             user : Users \cup {None}, old : Emails \cup {None}, new : Emails \cup {None},
             stamp : Requests \cup {None}]

\* Whom event-users finds under an address in the role "client".
Holders(e) == {c \in Clients : email[c] = e}

\* What is true now of addresses and bookings.
Facts == {<<"holds", c, email[c]>> : c \in Clients}
         \cup {<<"free", e, None>> : e \in {f \in Emails : Holders(f) = {}}}
         \cup {<<"row", b, booking[b]>> : b \in Bookings}

\* The types of the variables; a command is published once its request is done
\* with checking, and event-users gives an address to one client at a time.
TypeOK ==
    /\ email \in [Users -> Emails \cup {None}]
    /\ had \in [Users -> SUBSET Emails]
    /\ booking \in [Bookings -> Rows]
    /\ changes \in 0 .. MaxChanges
    /\ request \in [Requests -> Request]
    /\ outcome \in [Requests -> {"none", "pending", "returned", "redirected", "raised", "lost"}]
    /\ applied \subseteq Requests /\ passed \subseteq applied
    /\ window \subseteq Payloads
    /\ \A r \in Requests : outcome[r] # "none" <=> request[r].phase = "publish"
    /\ \A r \in applied : outcome[r] # "none"
    /\ \A c, d \in Clients : email[c] = email[d] /\ c # d => email[c] = None
----
(***************************************************************************)
(* Steps of a request.                                                     *)
(***************************************************************************)

\* Operators named Typed..., Unstamped..., Trusting... and Hasty... are variants of
\* the one that follows them with a plausible bug; no specification uses them.

\* The address looked up and published for a request.
TypedAddress(q) == q.body
Address(q) == Lower[q.body]

UnstampedPayload(r, q) ==
    [kind |-> q.kind, booking |-> q.booking, user |-> q.user, old |-> q.old,
     new |-> IF q.kind = "change" THEN Address(q) ELSE None, stamp |-> None]

\* The data of the command.  Only a reminder says when it was asked for.  All
\* requests are one admin's ("requested_by").
Payload(r, q) ==
    [kind |-> q.kind, booking |-> q.booking, user |-> q.user, old |-> q.old,
     new |-> IF q.kind = "change" THEN Address(q) ELSE None,
     stamp |-> IF q.kind = "reminder" THEN r ELSE None]

Refused(q, reason) == [q EXCEPT !.phase = "refused", !.reason = reason]

\* A request that has got the address of its user from get_user.
WithUser(q, e) ==
    IF q.kind = "reminder" THEN [q EXCEPT !.phase = "publish", !.old = e]
    ELSE IF q.user \notin Clients THEN Refused(q, "not_a_client")
    ELSE IF e = Lower[q.body] THEN Refused(q, "email_unchanged")
    ELSE [q EXCEPT !.phase = "identity", !.old = e]

\* get_user: a hit in the cache, which may be an earlier address, or an await.
GetUser(q) == {[q EXCEPT !.phase = "user"]} \cup {WithUser(q, e) : e \in had[q.user]}

TrustingWithBooking(q) ==
    IF q.kind = "reassign" THEN {[q EXCEPT !.phase = "identity"]}
    ELSE IF q.row.client = None THEN {Refused(q, "no_client")}
    ELSE GetUser([q EXCEPT !.user = q.row.client])

\* A request that has got its booking.  The start may have passed since the row
\* was read, so a reminder can be refused although the row allowed it.
WithBooking(q) ==
    IF ~q.row.exists THEN {Refused(q, "booking_not_found")}
    ELSE IF q.kind = "reassign" THEN {[q EXCEPT !.phase = "identity"]}
    ELSE IF q.row.client = None THEN {Refused(q, "no_client")}
    ELSE {Refused(q, "not_eligible")}
         \cup IF q.row.ready THEN GetUser([q EXCEPT !.user = q.row.client]) ELSE {}

\* A request that has got the answer of get_user_by_email_role.
WithIdentity(q) ==
    CASE q.kind = "change" /\ q.holder # None   -> Refused(q, "email_already_in_use")
      [] q.kind = "change" /\ q.holder = None   -> [q EXCEPT !.phase = "publish"]
      [] q.kind = "reassign" /\ q.holder = None -> Refused(q, "client_not_found")
      [] q.kind = "reassign" /\ q.holder # None -> [q EXCEPT !.phase = "publish", !.user = q.holder]

HastyContinue(r, q) ==
    /\ request' = [request EXCEPT ![r] = q]
    /\ IF q.phase \in {"identified", "publish"} /\ outcome[r] = "none"
       THEN Publisher!Call(r) ELSE UNCHANGED publication
    /\ UNCHANGED <<outside, window, passed>>

\* The request goes on as q; publishing starts without a further await.
Continue(r, q) ==
    /\ request' = [request EXCEPT ![r] = q]
    /\ IF q.phase = "publish" THEN Publisher!Call(r) ELSE UNCHANGED publication
    /\ UNCHANGED <<outside, window, passed>>

Init ==
    /\ email \in [Users -> Emails \cup {None}]
    /\ \A c, d \in Clients : email[c] = email[d] /\ c # d => email[c] = None
    /\ had = [u \in Users |-> {email[u]} \ {None}]
    /\ booking \in [Bookings -> Rows]
    /\ changes = 0
    /\ request = [r \in Requests |-> IdleRequest]
    /\ facts = [r \in Requests |-> {}]
    /\ window = {} /\ passed = {}
    /\ Publisher!Init

\* A request arrives; change-email asks for the user at once, the others read
\* the booking.
Reassign(r) == \E b \in Bookings, s \in Spellings :
    Continue(r, [IdleRequest EXCEPT !.phase = "booking", !.kind = "reassign",
                                    !.booking = b, !.body = s])
Remind(r) == \E b \in Bookings :
    Continue(r, [IdleRequest EXCEPT !.phase = "booking", !.kind = "reminder", !.booking = b])
ChangeEmail(r) == \E u \in Users, s \in Spellings :
    \E q \in GetUser([IdleRequest EXCEPT !.kind = "change", !.user = u, !.body = s]) :
        Continue(r, q)

Begin(r) == request[r].phase = "idle" /\ (Reassign(r) \/ Remind(r) \/ ChangeEmail(r))

\* The first statement of get_booking_details.
ReadBooking(r) ==
    /\ request[r].phase = "booking"
    /\ Continue(r, [request[r] EXCEPT !.phase = "details", !.row = booking[request[r].booking]])

\* get_booking_details returns.
CheckBooking(r) ==
    /\ request[r].phase = "details"
    /\ \E q \in WithBooking(request[r]) : Continue(r, q)

\* event-users answers get_user, late enough for the address to be an earlier one.
UserAnswers(r) ==
    /\ request[r].phase = "user"
    /\ \/ \E e \in had[request[r].user] : Continue(r, WithUser(request[r], e))
       \/ /\ email[request[r].user] = None
          /\ Continue(r, Refused(request[r],
               IF request[r].kind = "reminder" THEN "client_not_found" ELSE "user_not_found"))

\* event-users looks up the address.
Identify(r) ==
    LET holders == Holders(Address(request[r])) IN
    /\ request[r].phase = "identity"
    /\ Continue(r, [request[r] EXCEPT !.phase = "identified",
                      !.holder = IF holders = {} THEN None ELSE CHOOSE c \in holders : TRUE])

\* Its answer arrives and the request is refused or publishes.
Decide(r) ==
    /\ request[r].phase = "identified"
    /\ Continue(r, WithIdentity(request[r]))

\* event-users answers with an error, cannot be reached, or lets the timeout pass.
UsersFail(r) ==
    /\ request[r].phase \in AwaitsUsers
    /\ Continue(r, Refused(request[r], "error"))

\* The database does.
DatabaseFails(r) ==
    /\ request[r].phase \in {"booking", "details"}
    /\ Continue(r, Refused(request[r], "error"))

\* publish ends: 202, also after a 3xx, or 502.
PublishEnds(r) ==
    /\ Publisher!Return(r) \/ Publisher!Redirect(r) \/ Publisher!Raise(r)
    /\ UNCHANGED <<outside, request, window, passed>>
----
(***************************************************************************)
(* The rest of the world.                                                  *)
(***************************************************************************)

\* event-receiver accepts a command, maybe once more after a retry of publish.  It
\* passes on what is not identical to one of the last ten minutes.
Accept(r) ==
    LET payload == Payload(r, request[r]) IN
    /\ Publisher!Apply(r)
    /\ window' = window \cup {payload}
    /\ passed' = IF payload \in window THEN passed ELSE passed \cup {r}
    /\ UNCHANGED <<outside, request>>

\* Ten minutes have passed.
Forget ==
    /\ \E payload \in window : window' = window \ {payload}
    /\ UNCHANGED <<outside, request, publication, passed>>

\* event-users gets, changes or loses a user, by a command or otherwise.
ChangeUser ==
    /\ changes < MaxChanges /\ changes' = changes + 1
    /\ \E u \in Users, e \in Emails \cup {None} :
         /\ e # email[u] /\ (u \in Clients => Holders(e) \subseteq {u} \/ e = None)
         /\ email' = [email EXCEPT ![u] = e]
         /\ had' = [had EXCEPT ![u] = @ \cup ({e} \ {None})]
    /\ UNCHANGED <<booking, request, publication, window, passed>>

\* event-saver writes a booking, or its start passes.  Bookings are not deleted.
ChangeBooking ==
    /\ changes < MaxChanges /\ changes' = changes + 1
    /\ \E b \in Bookings, row \in Rows \ {NoRow} :
         row # booking[b] /\ booking' = [booking EXCEPT ![b] = row]
    /\ UNCHANGED <<email, had, request, publication, window, passed>>

\* The process stops; no request is resumed.
Crash ==
    /\ request' = [r \in Requests |-> IF request[r].phase \in Waiting
                                      THEN [request[r] EXCEPT !.phase = "lost"] ELSE request[r]]
    /\ Publisher!Crash
    /\ UNCHANGED <<outside, window, passed>>

\* History: what is true from the first to the last step of a request.
Observe ==
    facts' = [r \in Requests |->
                IF request[r].phase \in Waiting \/ request'[r] # request[r]
                THEN facts[r] \cup Facts' ELSE facts[r]]

Step ==
    \/ \E r \in Requests :
         \/ Begin(r) \/ ReadBooking(r) \/ CheckBooking(r) \/ UserAnswers(r) \/ Identify(r)
         \/ Decide(r) \/ UsersFail(r) \/ DatabaseFails(r) \/ PublishEnds(r) \/ Accept(r)
    \/ Forget \/ ChangeUser \/ ChangeBooking \/ Crash

Next == Step /\ Observe

Spec == Init /\ [][Next]_vars
----
(***************************************************************************)
(* Properties.                                                             *)
(***************************************************************************)

Published(r, kind) == request[r].phase = "publish" /\ request[r].kind = kind
RefusedFor(r, reason) == request[r].phase = "refused" /\ request[r].reason = reason

\* A command that goes out rests on what was true while its request ran: the new
\* client held the address asked for and the booking existed; the reminded user was
\* the client of a booking that allowed it; the new address belonged to no client.
CommandsRestOnFacts ==
    \A r \in Requests :
        LET q == request[r] IN
        /\ Published(r, "reassign") =>
             /\ <<"holds", q.user, Lower[q.body]>> \in facts[r]
             /\ \E row \in Rows : row.exists /\ <<"row", q.booking, row>> \in facts[r]
        /\ Published(r, "reminder") =>
             <<"row", q.booking, [exists |-> TRUE, client |-> q.user, ready |-> TRUE]>> \in facts[r]
        /\ Published(r, "change") => <<"free", Lower[q.body], None>> \in facts[r]

\* An admin who is told that a booking or client does not exist, or that another
\* client has the address, is told what was true while the request ran.
RefusalsRestOnFacts ==
    \A r \in Requests :
        LET q == request[r] IN
        /\ RefusedFor(r, "booking_not_found") => <<"row", q.booking, NoRow>> \in facts[r]
        /\ RefusedFor(r, "client_not_found") /\ q.kind = "reassign"
             => <<"free", Lower[q.body], None>> \in facts[r]
        /\ RefusedFor(r, "email_already_in_use")
             => \E c \in Clients : <<"holds", c, Lower[q.body]>> \in facts[r]

\* A reminder that is sent again on purpose is not taken for a duplicate of the
\* first ("deliberate resends are not suppressed", docs/API_CONTRACTS.md:264).
RemindersNotSuppressed ==
    \A r \in applied : request[r].kind = "reminder" => r \in passed
====
