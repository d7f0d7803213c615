---- MODULE BookingDetails ----
(***************************************************************************)
(* One request for the details of a booking: get_booking_details           *)
(* (adapters/bookings_db.py), up to nine statements in a READ COMMITTED    *)
(* transaction, each with a snapshot of its own, while event-saver writes; *)
(* then, for GET /bookings/{uid}, the click counts of its meeting links    *)
(* from event-shortener, asked for all at once (routes.py).                *)
(***************************************************************************)
EXTENDS Integers, Sequences, FiniteSets

CONSTANTS
    Bookings,   \* booking uids
    Users,      \* organizers and clients
    Urls,       \* meeting URLs
    Idents,     \* what event-shortener knows a URL by
    Ident,      \* _ident_from_meeting_url, None for a URL without a path
    None,       \* SQL NULL, no row, no count
    MaxChanges  \* bound on the writes of event-saver and the clicks

ASSUME IdentAssumption == Ident \in [Urls -> Idents \cup {None}]
ASSUME NoneAssumption == None \notin Bookings \cup Users \cup Urls \cup Idents \cup Int
ASSUME MaxChangesAssumption == MaxChanges \in Nat

VARIABLES
    bookings,  \* the table of that name
    tables,    \* the tables that refer to it
    clicks,    \* event-shortener's count of each ident
    changes,   \* how often these three have changed
    request,   \* where the request is and what it has read
    counts,    \* the click count of each link read, as far as known
    before,    \* history: the tables when the request came
    seen,      \* history: every row there has been since
    clicked    \* history: the clicks when the counts were asked for

world == <<bookings, tables, clicks, changes>>
history == <<before, seen, clicked>>
vars == <<bookings, tables, clicks, changes, request, counts, before, seen, clicked>>

Booking == [organizer : Users \cup {None}, client : Users \cup {None}]

\* The tables whose rows nothing else depends on.
Logs == {"telegram", "chat", "video", "lifecycle"}
Tables == {"history", "links", "emails", "statuses"} \cup Logs

\* A row of any of them: "of" is booking_ref_id, for a status the id of its
\* notification; "last" is last_status, by the id of the status; "shown" is FALSE
\* for the chat events of type message.read.  Ids count up, and so does created_at.
Ids == 1 .. MaxChanges
Row == [id : Ids, of : Bookings \cup Ids, user : Users \cup {None},
        url : Urls \cup {None}, last : Ids \cup {None}, shown : BOOLEAN]

\* Operators named HistoryFirst..., Unfiltered..., Early..., Anyones..., Arrival... and
\* Shifted... are variants of what follows them with a plausible bug (reading the
\* history before the booking, or the statuses before the notifications, among them);
\* no specification uses them.

\* The statements of get_booking_details, in their order.
HistoryFirstStatements == <<"history", "booking", "links", "emails", "telegram", "chat",
                            "video", "lifecycle", "statuses">>
Statements == <<"booking", "history", "links", "emails", "telegram", "chat",
                "video", "lifecycle", "statuses">>

Request == [phase : {"idle", "reading", "counting", "answered", "not_found", "failed"},
            uid : Bookings \cup {None}, statement : 1 .. Len(Statements) + 1,
            head : Booking \cup {None}, rows : [Tables -> SUBSET Row]]

Own(rows, b) == {r \in rows : r.of = b}
IdsOf(rows) == {r.id : r \in rows}

\* The types of the variables; a table numbers its rows, a user has at most one
\* link in a booking (uq_bml_booking_ref_id_user_id), and every status and every
\* last_status has its other half.
TypeOK ==
    /\ bookings \in [Bookings -> Booking \cup {None}]
    /\ tables \in [Tables -> SUBSET Row]
    /\ clicks \in [Idents -> 0 .. MaxChanges] /\ changes \in 0 .. MaxChanges
    /\ request \in Request
    /\ \A l \in DOMAIN counts : counts[l] \in 0 .. MaxChanges \cup {None}
    /\ DOMAIN counts \subseteq IdsOf(request.rows["links"])
    /\ \A t \in Tables : IdsOf(tables[t]) = 1 .. Cardinality(tables[t])
    /\ \A l, m \in tables["links"] : l.of = m.of /\ l.user = m.user => l = m
    /\ \A e \in tables["emails"] :
         e.last # None => \E s \in tables["statuses"] : s.id = e.last /\ s.of = e.id
----
(***************************************************************************)
(* The request.                                                            *)
(***************************************************************************)

UnfilteredSelected(t, q) ==
    IF t = "statuses" THEN {s \in tables[t] : s.of \in IdsOf(q.rows["emails"])}
    ELSE Own(tables[t], q.uid)

EarlySelected(t, q) ==
    IF t = "statuses" THEN {s \in before[t] : s.of \in IdsOf(q.rows["emails"])}
    ELSE {r \in Own(tables[t], q.uid) : t = "chat" => r.shown}

\* The rows a statement finds: those of the booking, of the notifications read
\* before, and of the chat all but message.read.
Selected(t, q) ==
    IF t = "statuses" THEN {s \in tables[t] : s.of \in IdsOf(q.rows["emails"])}
    ELSE {r \in Own(tables[t], q.uid) : t = "chat" => r.shown}

\* The URL of the link created last.
NewestUrl(links) ==
    IF links = {} THEN None
    ELSE (CHOOSE l \in links : \A m \in links : m.id <= l.id).url

\* _client_meeting_url: the client's link, of which there is one at most, else the
\* newest.
AnyonesMeetingUrl(links, c) == NewestUrl(links)
MeetingUrl(links, c) ==
    LET own == {l \in links : l.user = c} IN
    IF own # {} THEN (CHOOSE l \in own : TRUE).url ELSE NewestUrl(links)

Init ==
    /\ bookings \in [Bookings -> [organizer : {None}, client : Users \cup {None}] \cup {None}]
    /\ tables = [t \in Tables |-> {}]
    /\ clicks = [i \in Idents |-> 0] /\ changes = 0
    /\ request = [phase |-> "idle", uid |-> None, statement |-> 1, head |-> None,
                  rows |-> [t \in Tables |-> {}]]
    /\ counts = << >>
    /\ before = tables /\ seen = tables /\ clicked = clicks

\* The request arrives.
Begin ==
    /\ request.phase = "idle"
    /\ \E b \in Bookings : request' = [request EXCEPT !.phase = "reading", !.uid = b]
    /\ before' = tables /\ seen' = tables
    /\ UNCHANGED <<world, counts, clicked>>

\* The first statement finds the booking or ends the request.
ReadBooking ==
    /\ request.phase = "reading" /\ request.statement <= Len(Statements)
    /\ Statements[request.statement] = "booking"
    /\ request' = IF bookings[request.uid] = None THEN [request EXCEPT !.phase = "not_found"]
                  ELSE [request EXCEPT !.head = bookings[request.uid], !.statement = @ + 1]
    /\ UNCHANGED <<world, counts, history>>

\* The next statement runs.  The last one is left out if there are no notifications.
ReadTable ==
    LET t == Statements[request.statement] IN
    /\ request.phase = "reading" /\ request.statement <= Len(Statements)
    /\ t # "booking"
    /\ t = "statuses" => request.rows["emails"] # {}
    /\ request' = [request EXCEPT !.rows[t] = Selected(t, request), !.statement = @ + 1]
    /\ UNCHANGED <<world, counts, history>>

\* All is read: the route asks for the count of every link, or answers.
Assemble ==
    /\ request.phase = "reading"
    /\ \/ request.statement > Len(Statements)
       \/ /\ request.statement = Len(Statements) /\ Statements[request.statement] = "statuses"
          /\ request.rows["emails"] = {}
    /\ request' = [request EXCEPT
                     !.phase = IF request.rows["links"] = {} THEN "answered" ELSE "counting"]
    /\ clicked' = clicks
    /\ UNCHANGED <<world, counts, before, seen>>

\* Where the count of link l goes: gather keeps the order of its arguments.
ArrivalPlace(l) ==
    CHOOSE m \in IdsOf(request.rows["links"]) \ DOMAIN counts :
        \A n \in IdsOf(request.rows["links"]) \ DOMAIN counts : m <= n
ShiftedPlace(l) == l.id + 1
Place(l) == l.id

\* The count of one link arrives, of the URL that was read, or None: no ident, an
\* unknown one, an error status or no connection.
Count ==
    /\ request.phase = "counting"
    /\ \E l \in request.rows["links"] :
         /\ Place(l) \notin DOMAIN counts
         /\ \E n \in {None} \cup IF Ident[l.url] = None THEN {} ELSE {clicks[Ident[l.url]]} :
              counts' = [m \in DOMAIN counts \cup {Place(l)} |->
                           IF m = Place(l) THEN n ELSE counts[m]]
    /\ request' = IF DOMAIN counts' = IdsOf(request.rows["links"])
                  THEN [request EXCEPT !.phase = "answered"] ELSE request
    /\ UNCHANGED <<world, history>>

\* A statement fails, or event-shortener answers 200 with a body that is not what
\* get_click_count takes it for: the request ends in a 500.
Fail ==
    /\ \/ request.phase = "reading"
       \/ request.phase = "counting" /\ \E l \in request.rows["links"] :
            l.id \notin DOMAIN counts /\ Ident[l.url] # None
    /\ request' = [request EXCEPT !.phase = "failed"]
    /\ UNCHANGED <<world, counts, history>>
----
(***************************************************************************)
(* event-saver, each write one transaction, and event-shortener.           *)
(***************************************************************************)

NewRow(t, b, u) == [id |-> Cardinality(tables[t]) + 1, of |-> b, user |-> u,
                    url |-> None, last |-> None, shown |-> TRUE]
Known == {b \in Bookings : bookings[b] # None}

CreateBooking == \E b \in Bookings \ Known, c \in Users \cup {None} :
    /\ bookings' = [bookings EXCEPT ![b] = [organizer |-> None, client |-> c]]
    /\ UNCHANGED <<tables, clicks>>

ChangeClient == \E b \in Known, c \in Users \cup {None} :
    /\ bookings' = [bookings EXCEPT ![b].client = c]
    /\ UNCHANGED <<tables, clicks>>

\* A booking's organizer changes together with the history of its organizers.
AssignOrganizer == \E b \in Known, u \in Users :
    /\ bookings' = [bookings EXCEPT ![b].organizer = u]
    /\ tables' = [tables EXCEPT !["history"] = @ \cup {NewRow("history", b, u)}]
    /\ UNCHANGED clicks

\* A participant gets a link, or a new URL for the one he has.
StoreLink == \E b \in Known, u \in Users, url \in Urls :
    LET old == {l \in tables["links"] : l.of = b /\ l.user = u}
        new == IF old = {} THEN {[NewRow("links", b, u) EXCEPT !.url = url]}
               ELSE {[l EXCEPT !.url = url] : l \in old} IN
    /\ tables' = [tables EXCEPT !["links"] = (@ \ old) \cup new]
    /\ UNCHANGED <<bookings, clicks>>

SendEmail == \E b \in Known :
    /\ tables' = [tables EXCEPT !["emails"] = @ \cup {NewRow("emails", b, None)}]
    /\ UNCHANGED <<bookings, clicks>>

\* A status of a notification; a late one does not become the last.
StoreStatus == \E e \in tables["emails"], isLast \in BOOLEAN :
    LET status == NewRow("statuses", e.id, None) IN
    /\ tables' = [tables EXCEPT
                    !["statuses"] = @ \cup {status},
                    !["emails"] = IF isLast THEN (@ \ {e}) \cup {[e EXCEPT !.last = status.id]}
                                  ELSE @]
    /\ UNCHANGED <<bookings, clicks>>

StoreLog == \E b \in Known, t \in Logs, shown \in BOOLEAN :
    /\ shown \/ t = "chat"
    /\ tables' = [tables EXCEPT ![t] = @ \cup {[NewRow(t, b, None) EXCEPT !.shown = shown]}]
    /\ UNCHANGED <<bookings, clicks>>

Click == \E i \in Idents :
    /\ clicks' = [clicks EXCEPT ![i] = @ + 1]
    /\ UNCHANGED <<bookings, tables>>

\* What changes after the request has ended does not concern it and is left out.
Change ==
    /\ request.phase \in {"idle", "reading", "counting"}
    /\ changes < MaxChanges /\ changes' = changes + 1
    /\ \/ CreateBooking \/ ChangeClient \/ AssignOrganizer \/ StoreLink
       \/ SendEmail \/ StoreStatus \/ StoreLog \/ Click
    /\ seen' = [t \in Tables |-> seen[t] \cup tables'[t]]
    /\ UNCHANGED <<request, counts, before, clicked>>

Next == Begin \/ ReadBooking \/ ReadTable \/ Assemble \/ Count \/ Fail \/ Change

Spec == Init /\ [][Next]_vars
----
(***************************************************************************)
(* Properties.                                                             *)
(***************************************************************************)

Read(t) == request.rows[t]
Assembled == request.phase \in {"counting", "answered"}

\* Every list holds what there was of the booking when the request came, in a form
\* it has had since, and nothing of another booking; no read receipt is shown.
DetailsComplete ==
    Assembled => \A t \in Tables \ {"statuses"} :
        /\ \A r \in Own(before[t], request.uid) : r.shown => r.id \in IdsOf(Read(t))
        /\ Read(t) \subseteq {r \in Own(seen[t], request.uid) : r.shown}

\* Statements with snapshots of their own must run in the order of what they show:
\* the status a notification is shown with is in its list of statuses.
LastStatusInHistory ==
    Assembled => \A e \in Read("emails") :
        e.last # None => \E s \in Read("statuses") : s.id = e.last /\ s.of = e.id

\* The organizer shown is in the list of organizers.
OrganizerInHistory ==
    Assembled /\ request.head.organizer # None
    => \E r \in Read("history") : r.user = request.head.organizer

\* The link a reminder would carry ("the client's meeting link if present, else the
\* most recent link", routes.py:95): the client's if he had one when the request came;
\* if he has had none, one no older than any there was then; none only if there were none.
ReminderLinkIsRight ==
    Assembled /\ request.head.client # None =>
        LET url == MeetingUrl(Read("links"), request.head.client)
            first == Own(before["links"], request.uid)
            since == Own(seen["links"], request.uid)
            his(rows) == {l \in rows : l.user = request.head.client} IN
        /\ his(first) # {} => \E l \in his(since) : l.url = url
        /\ his(since) = {} /\ url # None
           => \E l \in since : l.url = url /\ \A m \in first : m.id <= l.id
        /\ url = None => first = {}

\* The count shown beside a link was that of its own URL while the counts were asked
\* for, in whatever order event-shortener answers.
CountsAreOwn ==
    \A l \in Read("links") : l.id \in DOMAIN counts /\ counts[l.id] # None =>
        /\ Ident[l.url] # None
        /\ counts[l.id] \in clicked[Ident[l.url]] .. clicks[Ident[l.url]]
====
