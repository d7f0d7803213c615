---- MODULE Listings ----
(***************************************************************************)
(* The paged lists: GET /bookings and /bookings/future-email-bounced       *)
(* (adapters/bookings_db.py) and GET /blacklist (adapters/blacklist_db.py).*)
(* A client walks one of them from offset 0, a page at a time, until a page*)
(* is not full; event-saver or other admins change the rows in between.    *)
(***************************************************************************)
EXTENDS Integers, FiniteSets

CONSTANTS
    Ids,        \* ids of rows, numbers, by which equal rows are ordered
    Limit,      \* the page size
    MaxClock,   \* bound on the clock
    MaxChanges  \* bound on the changes of rows

ASSUME IdsAssumption == Ids \subseteq Nat /\ IsFiniteSet(Ids)
ASSUME LimitsAssumption ==
    Limit \in Nat \ {0} /\ MaxClock \in Nat \ {0} /\ MaxChanges \in Nat

VARIABLES
    list,     \* the list that is walked
    rows,     \* the rows of its table
    clock,    \* now()
    changes,  \* how often a row has changed
    walk,     \* how far the client is
    shown,    \* how often it has been shown each row
    stayed,   \* history: the rows in the list all along, in their place
    overtook, \* history: those that lost a row ahead of them, and those that got one
    tied      \* history: those that shared their place with another row

vars == <<list, rows, clock, changes, walk, shown, stayed, overtook, tied>>

Lists == {"bookings", "bounced", "blacklist"}

\* "key" is what the list is ordered by: last_seen_at, start_time, created_at. "hits"
\* is how many notifications of the booking bounced; in the other lists, 1 for a row
\* that passes the filters and 0 for one that does not.
Times == 0 .. MaxClock
Row == [key : Times, hits : 0 .. 2]
NoRow == [key |-> -1, hits |-> 0]

\* The client has asked for the total if the list has one ("counted"); "size" is what
\* its last page held, "torn" that the list changed between total and page.
Walk == [phase : {"asking", "counted", "done"}, offset : Nat, total : Nat,
         at : Nat, size : Nat, torn : BOOLEAN]

\* The types of the variables; no row was seen or created in the future, and no page
\* is longer than it was asked to be.
TypeOK ==
    /\ list \in Lists
    /\ rows \in [Ids -> Row \cup {NoRow}]
    /\ list # "bounced" => \A i \in Ids : rows[i].hits < 2 /\ rows[i].key <= clock
    /\ clock \in Times /\ changes \in 0 .. MaxChanges
    /\ walk \in Walk /\ walk.size <= Limit
    /\ shown \in [Ids -> Nat]
    /\ stayed \subseteq Ids /\ tied \subseteq Ids
    /\ overtook \in [lost : SUBSET Ids, got : SUBSET Ids]
----
(***************************************************************************)
(* The queries.  Operators named Oldest..., Untied..., Ungrouped...,       *)
(* Greedy... and Unfiltered... are variants of what follows them with a    *)
(* plausible bug; no specification uses them.                              *)
(***************************************************************************)

\* WHERE: the filters; for bounced, start_time > now() and a bounced notification.
Selected == {i \in Ids : rows[i].hits > 0 /\ (list = "bounced" => rows[i].key > clock)}

UngroupedItems == UNION {{[id |-> i, n |-> n] : n \in 1 .. rows[i].hits} : i \in Selected}

\* The rows of the result: GROUP BY leaves one for a booking, however many of its
\* notifications bounced.
Items == {[id |-> i, n |-> 1] : i \in Selected}

OldestPrecedes(x, y) ==
    LET a == rows[x.id]  b == rows[y.id] IN
    a.key < b.key \/ (list # "bookings" /\ a.key = b.key /\ x.id < y.id)

UntiedPrecedes(x, y) ==
    IF list = "bounced" THEN rows[x.id].key < rows[y.id].key ELSE rows[x.id].key > rows[y.id].key

\* ORDER BY: last_seen_at DESC; start_time ASC, id ASC; created_at DESC, id.
Precedes(x, y) ==
    LET a == rows[x.id]  b == rows[y.id] IN
    \/ list = "bounced" /\ a.key < b.key
    \/ list # "bounced" /\ a.key > b.key
    \/ list # "bookings" /\ a.key = b.key /\ x.id < y.id

\* A set of rows the result may begin with: what ORDER BY leaves open, any statement
\* may decide otherwise.
Beginning(B) ==
    B \subseteq Items /\ \A x \in B, y \in Items \ B : ~Precedes(y, x)

Lesser(m, n) == IF m < n THEN m ELSE n

GreedyPages(offset) ==
    {P \in SUBSET Items :
       \E B \in SUBSET (Items \ P) :
         /\ Beginning(B) /\ Cardinality(B) = Lesser(offset, Cardinality(Items))
         /\ Beginning(B \cup P)
         /\ Cardinality(B \cup P) = Lesser(offset + Limit + 1, Cardinality(Items))}

\* LIMIT and OFFSET: the page is what the second beginning adds to the first.
Pages(offset) ==
    {P \in SUBSET Items :
       \E B \in SUBSET (Items \ P) :
         /\ Beginning(B) /\ Cardinality(B) = Lesser(offset, Cardinality(Items))
         /\ Beginning(B \cup P)
         /\ Cardinality(B \cup P) = Lesser(offset + Limit, Cardinality(Items))}

UnfilteredTotal == Cardinality({i \in Ids : rows[i] # NoRow})

\* count(*) with the WHERE of the page.
Total == Cardinality(Selected)
----
(***************************************************************************)
(* The walk, and what changes beside it.                                   *)
(***************************************************************************)

\* Where the list as documented has a row: the latest first, or the next to start.
Ahead(i, j) ==
    /\ i \in Selected /\ j \in Selected
    /\ \/ list = "bounced" /\ rows[i].key < rows[j].key
       \/ list # "bounced" /\ rows[i].key > rows[j].key
       \/ rows[i].key = rows[j].key /\ i < j

Twins == {i \in Selected : \E j \in Selected \ {i} : rows[i].key = rows[j].key}

FirstPage == [phase |-> "asking", offset |-> 0, total |-> 0, at |-> 0, size |-> 0, torn |-> FALSE]

Init ==
    /\ list \in Lists
    /\ clock \in 0 .. 1
    /\ rows \in [Ids -> Row \cup {NoRow}]
    /\ list # "bounced" => \A i \in Ids : rows[i].hits < 2 /\ rows[i].key <= clock
    /\ changes = 0
    /\ walk = FirstPage
    /\ shown = [i \in Ids |-> 0]
    /\ stayed = Selected
    /\ overtook = [lost |-> {}, got |-> {}]
    /\ tied = Twins

\* The total is read, by a statement of its own.
Count ==
    /\ list = "blacklist" /\ walk.phase = "asking"
    /\ walk' = [walk EXCEPT !.phase = "counted", !.total = Total, !.torn = FALSE]
    /\ UNCHANGED <<list, rows, clock, changes, shown, stayed, overtook, tied>>

\* The page is read and answered; the client asks for the next unless it was the last.
ReadPage ==
    /\ walk.phase = IF list = "blacklist" THEN "counted" ELSE "asking"
    /\ \E P \in Pages(walk.offset) :
         /\ shown' = [i \in Ids |-> shown[i] + Cardinality({x \in P : x.id = i})]
         /\ walk' = [walk EXCEPT !.phase = IF Cardinality(P) < Limit THEN "done" ELSE "asking",
                                 !.at = walk.offset, !.offset = @ + Limit,
                                 !.size = Cardinality(P)]
    /\ UNCHANGED <<list, rows, clock, changes, stayed, overtook, tied>>

\* The client starts over.
Again ==
    /\ walk.phase = "done"
    /\ walk' = FirstPage
    /\ shown' = [i \in Ids |-> 0]
    /\ stayed' = Selected /\ tied' = Twins
    /\ overtook' = [lost |-> {}, got |-> {}]
    /\ UNCHANGED <<list, rows, clock, changes>>

\* What a change of the rows or the time means for the rows that stay.
Remember ==
    /\ stayed' = {i \in stayed : i \in Selected' /\ rows'[i].key = rows[i].key}
    /\ overtook' =
         [lost |-> overtook.lost \cup {j \in Ids : \E i \in Ids : Ahead(i, j) /\ ~Ahead(i, j)'},
          got |-> overtook.got \cup {j \in Ids : \E i \in Ids : ~Ahead(i, j) /\ Ahead(i, j)'}]
    /\ tied' = tied \cup Twins'
    /\ walk' = [walk EXCEPT !.torn = @ \/ walk.phase = "counted"]

Change(i, row) ==
    /\ changes < MaxChanges /\ changes' = changes + 1
    /\ row # rows[i]
    /\ rows' = [rows EXCEPT ![i] = row]
    /\ UNCHANGED <<list, clock, shown>>
    /\ Remember

\* event-saver handles an event of a booking, known or new: last_seen_at is now.
Seen(i) ==
    /\ list = "bookings"
    /\ \E hits \in 0 .. 1 : Change(i, [key |-> clock, hits |-> hits])

\* A booking is made or moved, a notification bounces or is delivered.
Bounce(i) ==
    /\ list = "bounced"
    /\ \E row \in Row : (row.key = rows[i].key \/ row.hits = rows[i].hits) /\ Change(i, row)

\* An admin creates, changes or deletes an entry, or its window opens or closes.
Edit(i) ==
    /\ list = "blacklist"
    /\ \/ rows[i] = NoRow /\ \E hits \in 0 .. 1 : Change(i, [key |-> clock, hits |-> hits])
       \/ rows[i] # NoRow /\ Change(i, [rows[i] EXCEPT !.hits = 1 - @])
       \/ rows[i] # NoRow /\ Change(i, NoRow)

Tick ==
    /\ clock < MaxClock /\ clock' = clock + 1
    /\ UNCHANGED <<list, rows, changes, shown>>
    /\ Remember

Next ==
    \/ Count \/ ReadPage \/ Again \/ Tick
    \/ \E i \in Ids : Seen(i) \/ Bounce(i) \/ Edit(i)

Spec == Init /\ [][Next]_vars
----
(***************************************************************************)
(* Properties.                                                             *)
(***************************************************************************)

\* A walk shows every row that stays in its place, and shows it once: it is left out
\* only if a row ahead of it left, and repeated only if one came. A booking that is
\* seen again moves ahead and so makes no other be left out.  Bookings seen at the same
\* instant are in no order, so any of those may be left out or repeated.
WalkShowsWhatStays ==
    \A i \in stayed \ (IF list = "bookings" THEN tied ELSE {}) :
        /\ walk.phase = "done" /\ shown[i] = 0 => i \in overtook.lost
        /\ shown[i] > 1 => i \in overtook.got

\* The total of a page is that of the list it is a page of, unless the list changed
\* between the two statements (blacklist_db.py:79-90).
TotalFits ==
    list = "blacklist" /\ walk.phase # "counted" /\ walk.offset > 0 /\ ~walk.torn
    => walk.size = Lesser(Limit, IF walk.total > walk.at THEN walk.total - walk.at ELSE 0)
====
