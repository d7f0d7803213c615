---- MODULE BookingDetails_proofs ----
(***************************************************************************)
(* Proofs about BookingDetails, for any bookings, users, URLs and number   *)
(* of writes of event-saver during the request.                            *)
(***************************************************************************)
EXTENDS BookingDetails, FiniteSetTheorems, WellFoundedInduction, TLAPS

\* A table of at most n rows is numbered without a gap and without a repetition.
Numbered(rows, n) ==
    /\ IsFiniteSet(rows) /\ Cardinality(rows) <= n
    /\ IdsOf(rows) = 1 .. Cardinality(rows)
    /\ \A q, r \in rows : q.id = r.id => q = r

\* What two versions of one row have in common.
Same(q, r) == q.id = r.id /\ q.of = r.of /\ q.user = r.user /\ q.shown = r.shown

\* Rows may change but do not go away.
Kept(old, new) == \A r \in old : \E q \in new : Same(q, r)

\* What holds of the tables between any two transactions of event-saver, beyond
\* their types: every summary has the row it summarises.
World ==
    /\ bookings \in [Bookings -> Booking \cup {None}]
    /\ tables \in [Tables -> SUBSET Row]
    /\ clicks \in [Idents -> Nat] /\ changes \in 0 .. MaxChanges
    /\ \A i \in Idents : clicks[i] <= changes
    /\ \A t \in Tables : Numbered(tables[t], changes)
    /\ \A t \in Tables \ {"chat"} : \A r \in tables[t] : r.shown
    /\ \A l \in tables["links"] : l.url \in Urls
    /\ \A l, m \in tables["links"] : l.of = m.of /\ l.user = m.user => l = m
    /\ \A e \in tables["emails"] :
         e.last # None => \E s \in tables["statuses"] : s.id = e.last /\ s.of = e.id
    /\ \A b \in Known : bookings[b].organizer # None =>
         \E r \in tables["history"] : r.of = b /\ r.user = bookings[b].organizer

\* What a transaction of event-saver may not do.
Grown ==
    /\ \A t \in Tables : Kept(tables[t], tables'[t])
    /\ tables["statuses"] \subseteq tables'["statuses"]
    /\ tables["history"] \subseteq tables'["history"]
    /\ \A i \in Idents : clicks[i] <= clicks'[i]
----
(***************************************************************************)
(* Tables.                                                                 *)
(***************************************************************************)

\* A new row gets the next number.
LEMMA AddRow ==
    ASSUME NEW rows, NEW n \in Nat, Numbered(rows, n), NEW r, r.id = Cardinality(rows) + 1
    PROVE  Numbered(rows \cup {r}, n + 1) /\ r \notin rows
<1> DEFINE k == Cardinality(rows)
<1>1. k \in Nat BY FS_CardinalityType DEF Numbered
<1>2. r \notin rows BY <1>1 DEF Numbered, IdsOf
<1>3. IsFiniteSet(rows \cup {r}) /\ Cardinality(rows \cup {r}) = k + 1
  BY <1>2, FS_AddElement DEF Numbered
<1>4. IdsOf(rows \cup {r}) = 1 .. (k + 1)
  <2>1. IdsOf(rows \cup {r}) = IdsOf(rows) \cup {k + 1} BY DEF IdsOf
  <2>2. \A j \in Nat : 1 .. (j + 1) = (1 .. j) \cup {j + 1} OBVIOUS
  <2>3. IdsOf(rows) = 1 .. k BY DEF Numbered
  <2> HIDE DEF k
  <2> QED BY <1>1, <2>1, <2>2, <2>3
<1>5. \A q, s \in rows \cup {r} : q.id = s.id => q = s
  <2>1. \A q \in rows : q.id # r.id BY <1>1 DEF Numbered, IdsOf
  <2> QED BY <2>1 DEF Numbered
<1> QED BY <1>1, <1>2, <1>3, <1>4, <1>5 DEF Numbered

\* A row that is changed keeps its number.
LEMMA ChangeRow ==
    ASSUME NEW rows, NEW n \in Nat, Numbered(rows, n), NEW r \in rows, NEW q, q.id = r.id
    PROVE  Numbered((rows \ {r}) \cup {q}, n)
<1> DEFINE k == Cardinality(rows)
           new == (rows \ {r}) \cup {q}
<1>1. k \in Nat BY FS_CardinalityType DEF Numbered
<1>2. q \notin rows \ {r} BY DEF Numbered
<1>3. IsFiniteSet(rows \ {r}) /\ Cardinality(rows \ {r}) = k - 1
  BY FS_RemoveElement DEF Numbered
<1>4. IsFiniteSet(new) /\ Cardinality(new) = k
  BY <1>1, <1>2, <1>3, FS_AddElement
<1>5. IdsOf(new) = IdsOf(rows) BY DEF IdsOf
<1>6. \A s, u \in new : s.id = u.id => s = u BY DEF Numbered
<1> QED BY <1>4, <1>5, <1>6 DEF Numbered

\* Numbers stay within the bound they are given.
LEMMA NumberedMore ==
    ASSUME NEW rows, NEW n \in Nat, Numbered(rows, n)
    PROVE  Numbered(rows, n + 1)
BY FS_CardinalityType DEF Numbered

\* The next number is the id of a row.
LEMMA NextId ==
    ASSUME NEW rows, NEW n \in Nat, n < MaxChanges, Numbered(rows, n)
    PROVE  Cardinality(rows) + 1 \in Ids
BY MaxChangesAssumption, FS_CardinalityType DEF Numbered, Ids

\* A nonempty set of numbered rows has a last one.
LEMMA LastRow ==
    ASSUME NEW rows \in SUBSET Row, rows # {}
    PROVE  \E l \in rows : \A m \in rows : m.id <= l.id
<1> DEFINE rank == {MaxChanges - r.id : r \in rows}
<1>1. \A r \in rows : r.id \in 1 .. MaxChanges BY DEF Row, Ids
<1>2. rank \subseteq Nat BY <1>1, MaxChangesAssumption
<1>3. rank # {} OBVIOUS
<1>4. PICK x \in rank : \A y \in rank : ~ (<<y, x>> \in OpToRel(<, Nat))
  <2> HIDE DEF rank
  <2> QED BY <1>2, <1>3, NatLessThanWellFounded, WFMin
<1>5. PICK l \in rows : x = MaxChanges - l.id OBVIOUS
<1>6. ASSUME NEW m \in rows PROVE m.id <= l.id
  <2>1. MaxChanges - m.id \in rank OBVIOUS
  <2>2. ~ (<<MaxChanges - m.id, x>> \in OpToRel(<, Nat)) BY <1>4, <2>1
  <2>3. ~ (MaxChanges - m.id < x) BY <1>2, <2>1, <2>2 DEF OpToRel
  <2> QED BY <1>1, <1>5, <2>3, MaxChangesAssumption
<1> QED BY <1>6
----
(***************************************************************************)
(* The transactions of event-saver.                                        *)
(***************************************************************************)

\* The part of World that concerns a table as such.
TablesNumbered ==
    /\ tables \in [Tables -> SUBSET Row]
    /\ \A t \in Tables : Numbered(tables[t], changes)

\* What a row made by NewRow looks like.
LEMMA NewRowIsRow ==
    ASSUME World, changes < MaxChanges, NEW t \in Tables,
           NEW b \in Bookings \cup Ids, NEW u \in Users \cup {None}
    PROVE  /\ NewRow(t, b, u) \in Row
           /\ NewRow(t, b, u).id = Cardinality(tables[t]) + 1
           /\ NewRow(t, b, u).of = b /\ NewRow(t, b, u).user = u
           /\ NewRow(t, b, u).last = None /\ NewRow(t, b, u).shown
<1>1. Cardinality(tables[t]) + 1 \in Ids BY NextId, MaxChangesAssumption DEF World
<1> QED BY <1>1 DEF NewRow, Row

\* Inserting a row into one table.
LEMMA Insert ==
    ASSUME World, changes' = changes + 1, NEW t \in Tables, NEW r \in Row,
           r.id = Cardinality(tables[t]) + 1,
           tables' = [tables EXCEPT ![t] = @ \cup {r}]
    PROVE  /\ TablesNumbered'
           /\ \A u \in Tables : Kept(tables[u], tables'[u]) /\ tables[u] \subseteq tables'[u]
<1>1. tables' \in [Tables -> SUBSET Row] BY DEF World
<1>2. changes \in Nat BY MaxChangesAssumption DEF World
<1>3. ASSUME NEW u \in Tables PROVE Numbered(tables[u], changes) BY DEF World
<1>4. ASSUME NEW u \in Tables PROVE Numbered(tables'[u], changes + 1)
  <2>1. CASE u = t
    <3>1. tables'[u] = tables[t] \cup {r} BY <2>1 DEF World
    <3> QED BY <1>2, <1>3, <3>1, AddRow
  <2>2. CASE u # t
    <3>1. tables'[u] = tables[u] BY <2>2 DEF World
    <3> QED BY <1>2, <1>3, <3>1, NumberedMore
  <2> QED BY <2>1, <2>2
<1>5. ASSUME NEW u \in Tables
      PROVE  Kept(tables[u], tables'[u]) /\ tables[u] \subseteq tables'[u]
  <2>1. tables'[u] = tables[u] \/ tables'[u] = tables[u] \cup {r} BY DEF World
  <2>2. tables[u] \subseteq tables'[u] BY <2>1
  <2> QED BY <2>2 DEF Kept, Same
<1> QED BY <1>1, <1>4, <1>5 DEF TablesNumbered

\* Changing a row of one table, its URL or its last status.
LEMMA Update ==
    ASSUME World, changes' = changes + 1, NEW t \in Tables, NEW r \in tables[t], NEW q \in Row,
           Same(q, r), tables' = [tables EXCEPT ![t] = (@ \ {r}) \cup {q}]
    PROVE  TablesNumbered' /\ \A u \in Tables : Kept(tables[u], tables'[u])
<1>1. tables' \in [Tables -> SUBSET Row] BY DEF World
<1>2. changes \in Nat BY MaxChangesAssumption DEF World
<1>3. ASSUME NEW u \in Tables PROVE Numbered(tables[u], changes) BY DEF World
<1>4. ASSUME NEW u \in Tables PROVE Numbered(tables'[u], changes + 1)
  <2>1. CASE u = t
    <3>1. tables'[u] = (tables[t] \ {r}) \cup {q} BY <2>1 DEF World
    <3>2. Numbered(tables'[u], changes) BY <1>2, <1>3, <3>1, ChangeRow DEF Same
    <3> QED BY <1>2, <3>2, NumberedMore
  <2>2. CASE u # t
    <3>1. tables'[u] = tables[u] BY <2>2 DEF World
    <3> QED BY <1>2, <1>3, <3>1, NumberedMore
  <2> QED BY <2>1, <2>2
<1>5. ASSUME NEW u \in Tables PROVE Kept(tables[u], tables'[u])
  <2>1. tables'[u] = tables[u] \/ (u = t /\ tables'[u] = (tables[u] \ {r}) \cup {q})
    BY DEF World
  <2> QED BY <2>1 DEF Kept, Same
<1> QED BY <1>1, <1>4, <1>5 DEF TablesNumbered

\* Tables keep their numbers while the count of writes goes up.
LEMMA Untouched ==
    ASSUME World, changes' = changes + 1, UNCHANGED tables
    PROVE  TablesNumbered' /\ \A u \in Tables : Kept(tables[u], tables'[u])
<1>1. changes \in Nat BY MaxChangesAssumption DEF World
<1>2. ASSUME NEW u \in Tables PROVE Numbered(tables'[u], changes + 1)
  BY <1>1, NumberedMore DEF World
<1> QED BY <1>2 DEF TablesNumbered, World, Kept, Same

\* The tables that World relates to each other.
LEMMA TableNames ==
    /\ "history" \in Tables /\ "links" \in Tables /\ "emails" \in Tables /\ "statuses" \in Tables
    /\ Logs \subseteq Tables
BY DEF Tables

\* The first statement reads none of them.
LEMMA BookingIsNoTable == "booking" \notin Tables
BY DEF Tables, Logs

\* A transaction that changes only bookings or clicks.
LEMMA OtherWrite ==
    ASSUME World, changes < MaxChanges, changes' = changes + 1,
           CreateBooking \/ ChangeClient \/ Click
    PROVE  World' /\ Grown
<1>1. UNCHANGED tables BY DEF CreateBooking, ChangeClient, Click
<1>2. TablesNumbered' /\ \A u \in Tables : Kept(tables[u], tables'[u]) BY <1>1, Untouched
<1>3. changes' \in 0 .. MaxChanges /\ changes \in Nat BY MaxChangesAssumption DEF World
<1>4. CASE CreateBooking \/ ChangeClient
  <2>1. UNCHANGED clicks BY <1>4 DEF CreateBooking, ChangeClient
  <2>2. PICK b \in Bookings, new \in Booking :
          /\ bookings' = [bookings EXCEPT ![b] = new]
          /\ \/ new.organizer = None
             \/ b \in Known /\ new.organizer = bookings[b].organizer
    <3>1. CASE CreateBooking
      <4>1. PICK b \in Bookings, c \in Users \cup {None} :
              bookings' = [bookings EXCEPT ![b] = [organizer |-> None, client |-> c]]
        BY <3>1 DEF CreateBooking
      <4> DEFINE new == [organizer |-> None, client |-> c]
      <4>2. new \in Booking /\ new.organizer = None BY DEF Booking
      <4>3. bookings' = [bookings EXCEPT ![b] = new] BY <4>1
      <4> HIDE DEF new
      <4> QED BY <4>1, <4>2, <4>3
    <3>2. CASE ChangeClient
      <4>1. PICK b \in Known, c \in Users \cup {None} :
              bookings' = [bookings EXCEPT ![b].client = c]
        BY <3>2 DEF ChangeClient
      <4>2. b \in Bookings /\ bookings[b] \in Booking BY DEF World, Known
      <4> DEFINE new == [bookings[b] EXCEPT !.client = c]
      <4>3. new \in Booking /\ new.organizer = bookings[b].organizer BY <4>2 DEF Booking
      <4>4. bookings' = [bookings EXCEPT ![b] = new] BY <4>1
      <4> HIDE DEF new
      <4> QED BY <4>1, <4>2, <4>3, <4>4
    <3> QED BY <1>4, <3>1, <3>2
  <2>3. bookings' \in [Bookings -> Booking \cup {None}] BY <2>2 DEF World
  <2>4. \A i \in Idents : clicks'[i] <= changes' BY <2>1, <1>3 DEF World
  <2>5. \A d \in Known' : bookings'[d].organizer # None =>
          \E r \in tables'["history"] : r.of = d /\ r.user = bookings'[d].organizer
    <3> SUFFICES ASSUME NEW d \in Known', bookings'[d].organizer # None
                 PROVE  \E r \in tables["history"] : r.of = d /\ r.user = bookings'[d].organizer
      BY <1>1
    <3>1. d \in Bookings BY DEF Known
    <3>2. d \in Known /\ bookings'[d].organizer = bookings[d].organizer
      <4>1. CASE d = b BY <4>1, <2>2, <3>1 DEF World
      <4>2. CASE d # b BY <4>2, <2>2, <3>1 DEF World, Known
      <4> QED BY <4>1, <4>2
    <3> QED BY <3>2 DEF World
  <2> QED BY <1>1, <1>2, <1>3, <2>1, <2>3, <2>4, <2>5 DEF World, Grown, TablesNumbered
<1>5. CASE Click
  <2>1. PICK i \in Idents : clicks' = [clicks EXCEPT ![i] = @ + 1] /\ UNCHANGED bookings
    BY <1>5 DEF Click
  <2>2. clicks' \in [Idents -> Nat] BY <2>1 DEF World
  <2>3. \A j \in Idents : clicks'[j] <= changes' /\ clicks[j] <= clicks'[j]
    BY <1>3, <2>1 DEF World
  <2>4. Known' = Known BY <2>1 DEF Known
  <2> QED BY <1>1, <1>2, <1>3, <2>1, <2>2, <2>3, <2>4 DEF World, Grown, TablesNumbered
<1> QED BY <1>4, <1>5

\* What World says of clicks and writes survives a transaction that leaves clicks alone.
LEMMA ClicksStay ==
    ASSUME World, changes < MaxChanges, changes' = changes + 1, UNCHANGED clicks
    PROVE  /\ clicks' \in [Idents -> Nat] /\ changes' \in 0 .. MaxChanges
           /\ \A i \in Idents : clicks'[i] <= changes' /\ clicks[i] <= clicks'[i]
BY MaxChangesAssumption DEF World

\* The organizer of a booking and the history of its organizers.
LEMMA OrganizerWrite ==
    ASSUME World, changes < MaxChanges, changes' = changes + 1, AssignOrganizer
    PROVE  World' /\ Grown
<1>1. PICK b \in Known, u \in Users :
        /\ bookings' = [bookings EXCEPT ![b].organizer = u]
        /\ tables' = [tables EXCEPT !["history"] = @ \cup {NewRow("history", b, u)}]
        /\ UNCHANGED clicks
  BY DEF AssignOrganizer
<1> DEFINE row == NewRow("history", b, u)
<1>2. b \in Bookings /\ bookings[b] \in Booking BY DEF World, Known
<1>3. row \in Row /\ row.id = Cardinality(tables["history"]) + 1
      /\ row.of = b /\ row.user = u /\ row.shown
  BY <1>2, NewRowIsRow, TableNames
<1> HIDE DEF row
<1>4. tables' = [tables EXCEPT !["history"] = @ \cup {row}] BY <1>1 DEF row
<1>5. TablesNumbered' /\ \A t \in Tables : Kept(tables[t], tables'[t])
                                           /\ tables[t] \subseteq tables'[t]
  BY <1>3, <1>4, Insert, TableNames
<1>6. /\ tables'["history"] = tables["history"] \cup {row}
      /\ \A t \in Tables \ {"history"} : tables'[t] = tables[t]
  BY <1>4, TableNames DEF World
<1> DEFINE new == [bookings[b] EXCEPT !.organizer = u]
<1>7. new \in Booking /\ new.organizer = u BY <1>2 DEF Booking
<1>8. bookings' = [bookings EXCEPT ![b] = new] BY <1>1
<1> HIDE DEF new
<1>9. bookings' \in [Bookings -> Booking \cup {None}] BY <1>7, <1>8 DEF World
<1>10. \A d \in Known' : bookings'[d].organizer # None =>
         \E r \in tables'["history"] : r.of = d /\ r.user = bookings'[d].organizer
  <2> SUFFICES ASSUME NEW d \in Known', bookings'[d].organizer # None
               PROVE  \E r \in tables'["history"] : r.of = d /\ r.user = bookings'[d].organizer
    OBVIOUS
  <2>1. d \in Bookings BY DEF Known
  <2>2. CASE d = b BY <2>1, <2>2, <1>3, <1>6, <1>7, <1>8 DEF World
  <2>3. CASE d # b
    <3>1. d \in Known /\ bookings'[d] = bookings[d] BY <2>1, <2>3, <1>8 DEF World, Known
    <3> QED BY <3>1, <1>6 DEF World
  <2> QED BY <2>2, <2>3
<1>11. \A t \in Tables \ {"chat"} : \A r \in tables'[t] : r.shown BY <1>3, <1>6 DEF World
<1>12. tables'["links"] = tables["links"] /\ tables'["emails"] = tables["emails"]
       /\ tables'["statuses"] = tables["statuses"]
  BY <1>6, TableNames
<1> QED BY <1>1, <1>5, <1>9, <1>10, <1>11, <1>12, ClicksStay, TableNames
        DEF World, Grown, TablesNumbered

\* A notification, and a row that no other refers to.
LEMMA LogWrite ==
    ASSUME World, changes < MaxChanges, changes' = changes + 1, SendEmail \/ StoreLog
    PROVE  World' /\ Grown
<1>1. PICK t \in Tables, row \in Row :
        /\ row.id = Cardinality(tables[t]) + 1 /\ row.last = None
        /\ t \in Logs \cup {"emails"} /\ (row.shown \/ t = "chat")
        /\ tables' = [tables EXCEPT ![t] = @ \cup {row}]
        /\ UNCHANGED <<bookings, clicks>>
  <2>1. CASE SendEmail
    <3>1. PICK b \in Known :
            /\ tables' = [tables EXCEPT !["emails"] = @ \cup {NewRow("emails", b, None)}]
            /\ UNCHANGED <<bookings, clicks>>
      BY <2>1 DEF SendEmail
    <3> DEFINE row == NewRow("emails", b, None)
    <3>2. row \in Row /\ row.id = Cardinality(tables["emails"]) + 1 /\ row.last = None /\ row.shown
      BY NewRowIsRow, TableNames DEF Known
    <3>3. tables' = [tables EXCEPT !["emails"] = @ \cup {row}] BY <3>1
    <3> HIDE DEF row
    <3> QED BY <3>1, <3>2, <3>3, TableNames
  <2>2. CASE StoreLog
    <3>1. PICK b \in Known, t \in Logs, shown \in BOOLEAN :
            /\ shown \/ t = "chat"
            /\ tables' = [tables EXCEPT ![t] = @ \cup {[NewRow(t, b, None) EXCEPT !.shown = shown]}]
            /\ UNCHANGED <<bookings, clicks>>
      BY <2>2 DEF StoreLog
    <3> DEFINE old == NewRow(t, b, None)
               row == [old EXCEPT !.shown = shown]
    <3>2. old \in Row /\ old.id = Cardinality(tables[t]) + 1 /\ old.last = None
      BY NewRowIsRow, TableNames DEF Known
    <3>3. tables' = [tables EXCEPT ![t] = @ \cup {row}] BY <3>1
    <3> HIDE DEF old
    <3>4. row \in Row /\ row.id = old.id /\ row.last = None /\ row.shown = shown
      BY <3>2 DEF Row
    <3> HIDE DEF row
    <3> QED BY <3>1, <3>2, <3>3, <3>4, TableNames
  <2> QED BY <2>1, <2>2
<1>2. TablesNumbered' /\ \A u \in Tables : Kept(tables[u], tables'[u])
                                           /\ tables[u] \subseteq tables'[u]
  BY <1>1, Insert
<1>3. /\ tables'[t] = tables[t] \cup {row}
      /\ \A u \in Tables \ {t} : tables'[u] = tables[u]
  BY <1>1 DEF World
<1>4. tables'["history"] = tables["history"] /\ tables'["links"] = tables["links"]
      /\ tables'["statuses"] = tables["statuses"]
  BY <1>1, <1>3, TableNames DEF Logs
<1>5. \A u \in Tables \ {"chat"} : \A r \in tables'[u] : r.shown BY <1>1, <1>3 DEF World
<1>6. \A e \in tables'["emails"] :
        e.last # None => \E s \in tables'["statuses"] : s.id = e.last /\ s.of = e.id
  <2>1. tables'["emails"] \subseteq tables["emails"] \cup {row} BY <1>3, TableNames
  <2> QED BY <2>1, <1>1, <1>4 DEF World
<1>7. Known' = Known BY <1>1 DEF Known
<1> QED BY <1>1, <1>2, <1>4, <1>5, <1>6, <1>7, ClicksStay, TableNames
        DEF World, Grown, TablesNumbered

\* A participant's first link, or a new URL for the one he has.
LEMMA LinkWrite ==
    ASSUME World, changes < MaxChanges, changes' = changes + 1, StoreLink
    PROVE  World' /\ Grown
<1>1. PICK b \in Known, u \in Users, url \in Urls :
        LET old == {l \in tables["links"] : l.of = b /\ l.user = u}
            new == IF old = {} THEN {[NewRow("links", b, u) EXCEPT !.url = url]}
                   ELSE {[l EXCEPT !.url = url] : l \in old} IN
        /\ tables' = [tables EXCEPT !["links"] = (@ \ old) \cup new]
        /\ UNCHANGED <<bookings, clicks>>
  BY DEF StoreLink
<1> DEFINE links == tables["links"]
           old == {l \in links : l.of = b /\ l.user = u}
<1>2. b \in Bookings /\ links \in SUBSET Row /\ "links" \in Tables
  BY TableNames DEF World, Known
\* The row that is written, and what becomes of the table.
<1>3. PICK row \in Row :
        /\ row.of = b /\ row.user = u /\ row.url = url /\ row.shown
        /\ tables'["links"] = (links \ old) \cup {row}
        /\ TablesNumbered' /\ \A t \in Tables : Kept(tables[t], tables'[t])
  <2>1. CASE old = {}
    <3> DEFINE first == NewRow("links", b, u)
               row == [first EXCEPT !.url = url]
    <3>1. first \in Row /\ first.id = Cardinality(links) + 1
          /\ first.of = b /\ first.user = u /\ first.shown
      BY <1>2, NewRowIsRow
    <3>2. tables' = [tables EXCEPT !["links"] = (@ \ old) \cup {row}] BY <1>1, <2>1
    <3> HIDE DEF first
    <3>3. row \in Row /\ row.id = first.id /\ row.of = b /\ row.user = u /\ row.url = url
          /\ row.shown
      BY <3>1 DEF Row
    <3> HIDE DEF row
    <3>4. tables' = [tables EXCEPT !["links"] = @ \cup {row}] BY <3>2, <2>1
    <3>5. TablesNumbered' /\ \A t \in Tables : Kept(tables[t], tables'[t])
      BY <3>1, <3>3, <3>4, <1>2, Insert
    <3>6. tables'["links"] = (links \ old) \cup {row} BY <3>2, <1>2 DEF World
    <3> QED BY <3>3, <3>5, <3>6
  <2>2. CASE old # {}
    <3>1. PICK l \in links : l.of = b /\ l.user = u BY <2>2
    <3>2. old = {l} BY <3>1 DEF World
    <3> DEFINE row == [l EXCEPT !.url = url]
    <3>3. tables' = [tables EXCEPT !["links"] = (@ \ old) \cup {[m EXCEPT !.url = url] : m \in old}]
      BY <1>1, <2>2
    <3>4. {[m EXCEPT !.url = url] : m \in old} = {row}
      <4> HIDE DEF old
      <4> QED BY <3>2
    <3>5. l \in Row /\ l.shown
      BY <1>2, "links" # "chat" DEF World
    <3>6. row \in Row /\ Same(row, l) /\ row.of = b /\ row.user = u /\ row.url = url /\ row.shown
      BY <3>1, <3>5 DEF Row, Same
    <3> HIDE DEF row, old
    <3>7. tables' = [tables EXCEPT !["links"] = (@ \ {l}) \cup {row}] BY <3>2, <3>3, <3>4
    <3>8. TablesNumbered' /\ \A t \in Tables : Kept(tables[t], tables'[t])
      <4>1. Same(l, row) BY <3>6 DEF Same
      <4> QED BY <3>1, <3>6, <3>7, <4>1, <1>2, Update
    <3>9. tables'["links"] = (links \ old) \cup {row} BY <3>2, <3>7, <1>2 DEF World
    <3> QED BY <3>6, <3>8, <3>9
  <2> QED BY <2>1, <2>2
<1>4. \A t \in Tables \ {"links"} : tables'[t] = tables[t] BY <1>1 DEF World
<1>5. tables'["history"] = tables["history"] /\ tables'["emails"] = tables["emails"]
      /\ tables'["statuses"] = tables["statuses"]
  BY <1>4, TableNames
<1>6. \A t \in Tables \ {"chat"} : \A r \in tables'[t] : r.shown BY <1>3, <1>4 DEF World
<1>7. \A l \in tables'["links"] : l.url \in Urls BY <1>3 DEF World
<1>8. \A l, m \in tables'["links"] : l.of = m.of /\ l.user = m.user => l = m
  <2>1. \A l \in links \ old : ~ (l.of = row.of /\ l.user = row.user) BY <1>3
  <2> QED BY <2>1, <1>3 DEF World
<1>9. Known' = Known BY <1>1 DEF Known
<1> HIDE DEF links, old
<1> QED BY <1>1, <1>3, <1>5, <1>6, <1>7, <1>8, <1>9, ClicksStay, TableNames
        DEF World, Grown, TablesNumbered

\* A status of a notification, which may become its last.
LEMMA StatusWrite ==
    ASSUME World, changes < MaxChanges, changes' = changes + 1, StoreStatus
    PROVE  World' /\ Grown
<1>1. PICK e \in tables["emails"], isLast \in BOOLEAN :
        LET status == NewRow("statuses", e.id, None) IN
        /\ tables' = [tables EXCEPT
                        !["statuses"] = @ \cup {status},
                        !["emails"] = IF isLast THEN (@ \ {e}) \cup {[e EXCEPT !.last = status.id]}
                                      ELSE @]
        /\ UNCHANGED <<bookings, clicks>>
  BY DEF StoreStatus
<1> DEFINE status == NewRow("statuses", e.id, None)
           shown == [e EXCEPT !.last = status.id]
<1>2. e \in Row /\ e.id \in Ids /\ e.shown
  BY TableNames, "emails" # "chat" DEF World, Row
<1>3. status \in Row /\ status.id = Cardinality(tables["statuses"]) + 1
      /\ status.of = e.id /\ status.shown
  BY <1>2, NewRowIsRow, TableNames
<1> HIDE DEF status
<1>4. /\ tables' = [tables EXCEPT !["statuses"] = @ \cup {status},
                                  !["emails"] = IF isLast THEN (@ \ {e}) \cup {shown} ELSE @]
  BY <1>1 DEF status
<1>5. shown \in Row /\ Same(e, shown) /\ shown.last = status.id /\ shown.shown
  BY <1>2, <1>3 DEF Row, Same
<1> HIDE DEF shown
<1>6. /\ tables'["statuses"] = tables["statuses"] \cup {status}
      /\ \/ tables'["emails"] = tables["emails"]
         \/ tables'["emails"] = (tables["emails"] \ {e}) \cup {shown}
      /\ \A t \in Tables \ {"statuses", "emails"} : tables'[t] = tables[t]
  BY <1>4, TableNames DEF World
<1>7. tables' \in [Tables -> SUBSET Row] BY <1>3, <1>4, <1>5 DEF World
<1>8. changes \in Nat /\ \A t \in Tables : Numbered(tables[t], changes)
  BY MaxChangesAssumption DEF World
<1>9. ASSUME NEW t \in Tables
      PROVE  Numbered(tables'[t], changes + 1) /\ Kept(tables[t], tables'[t])
  <2>1. CASE t = "statuses"
    <3>1. Numbered(tables'[t], changes + 1) BY <2>1, <1>3, <1>6, <1>8, AddRow
    <3> QED BY <2>1, <3>1, <1>6 DEF Kept, Same
  <2>2. CASE tables'[t] = tables[t]
    BY <2>2, <1>8, NumberedMore DEF Kept, Same
  <2>3. CASE t = "emails" /\ tables'[t] = (tables[t] \ {e}) \cup {shown}
    <3>1. Numbered(tables'[t], changes) BY <2>3, <1>5, <1>8, ChangeRow DEF Same
    <3>2. Numbered(tables'[t], changes + 1) BY <3>1, <1>8, NumberedMore
    <3>3. Kept(tables[t], tables'[t]) BY <2>3, <1>5 DEF Kept, Same
    <3> QED BY <3>2, <3>3
  <2> QED BY <2>1, <2>2, <2>3, <1>6
<1>10. tables'["history"] = tables["history"] /\ tables'["links"] = tables["links"]
  BY <1>6, TableNames
<1>11. \A t \in Tables \ {"chat"} : \A r \in tables'[t] : r.shown
  <2>1. \A r \in tables'["statuses"] \cup tables'["emails"] : r.shown
    BY <1>3, <1>5, <1>6, TableNames DEF World
  <2> QED BY <2>1, <1>6 DEF World
<1>12. \A n \in tables'["emails"] :
         n.last # None => \E s \in tables'["statuses"] : s.id = n.last /\ s.of = n.id
  <2>1. \A n \in tables'["emails"] : n \in tables["emails"] \/ n = shown BY <1>6
  <2>2. shown.id = e.id BY <1>5 DEF Same
  <2> QED BY <2>1, <2>2, <1>3, <1>5, <1>6 DEF World
<1>13. Known' = Known BY <1>1 DEF Known
<1>14. UNCHANGED <<bookings, clicks>> BY <1>1
<1> QED BY <1>6, <1>7, <1>9, <1>10, <1>11, <1>12, <1>13, <1>14, ClicksStay, TableNames
        DEF World, Grown

\* Whatever event-saver or a click does keeps World and loses nothing.
LEMMA ChangeKeepsWorld ==
    ASSUME World, Change
    PROVE  World' /\ Grown
BY OtherWrite, OrganizerWrite, LinkWrite, LogWrite, StatusWrite DEF Change
----
(***************************************************************************)
(* The request.                                                            *)
(***************************************************************************)

\* The statement that reads table t has run.
Done(t) == \E i \in 1 .. Len(Statements) : Statements[i] = t /\ i < request.statement

\* What was read of table t has every row there was, and only rows there have been.
Complete(t) ==
    /\ \A r \in Own(before[t], request.uid) :
         r.shown => \E q \in Read(t) : q.id = r.id /\ q.user = r.user
    /\ Read(t) \subseteq {r \in Own(seen[t], request.uid) : r.shown}

HistoryOK ==
    /\ before \in [Tables -> SUBSET Row] /\ seen \in [Tables -> SUBSET Row]
    /\ clicked \in [Idents -> Nat] /\ \A i \in Idents : clicked[i] <= clicks[i]
    /\ \A t \in Tables : Kept(before[t], tables[t]) /\ tables[t] \subseteq seen[t]

\* Where the request can be.
RequestOK ==
    /\ request \in Request
    /\ request.phase = "idle" => request.statement = 1
    /\ request.phase # "idle" => request.uid \in Bookings
    /\ Assembled => /\ \A t \in Tables \ {"statuses"} : Done(t)
                    /\ Done("statuses") \/ Read("emails") = {}

\* What it has read, each statement in its turn.
ReadOK ==
    /\ \A t \in Tables \ {"statuses"} : Done(t) => Complete(t)
    /\ request.statement > 1 /\ request.head.organizer # None =>
         /\ \E r \in tables["history"] :
              r.of = request.uid /\ r.user = request.head.organizer
         /\ Done("history") => \E r \in Read("history") : r.user = request.head.organizer
    /\ Done("links") => /\ \A l \in Read("links") : l.url \in Urls
                        /\ \A l, m \in Read("links") : l.id = m.id => l = m
    /\ Done("emails") => \A e \in Read("emails") : e.last # None =>
         /\ \E s \in tables["statuses"] : s.id = e.last /\ s.of = e.id
         /\ Done("statuses") => \E s \in Read("statuses") : s.id = e.last /\ s.of = e.id

CountsOK ==
    /\ request.phase \in {"idle", "reading", "not_found"} => DOMAIN counts = {}
    /\ DOMAIN counts \subseteq IdsOf(Read("links"))
    /\ \A l \in DOMAIN counts : counts[l] \in 0 .. MaxChanges \cup {None}
    /\ CountsAreOwn

Inv == World /\ HistoryOK /\ RequestOK /\ ReadOK /\ CountsOK

\* The order of the statements: the booking, the organizers, the links, the
\* notifications, and at the end their statuses.
LEMMA StatementOrder ==
    /\ Len(Statements) = 9
    /\ \A i \in 1 .. 9 : Statements[i] \in Tables \cup {"booking"}
    /\ \A i \in 1 .. 9 : Statements[i] = "booking" <=> i = 1
    /\ \A i \in 1 .. 9 : Statements[i] = "history" <=> i = 2
    /\ \A i \in 1 .. 9 : Statements[i] = "links" <=> i = 3
    /\ \A i \in 1 .. 9 : Statements[i] = "emails" <=> i = 4
    /\ \A i \in 1 .. 9 : Statements[i] = "statuses" <=> i = 9
    /\ \A t \in Tables : \E i \in 1 .. 9 : Statements[i] = t
    /\ \A i, j \in 1 .. 9 : Statements[i] = Statements[j] => i = j
<1>1. Statements[1] = "booking" /\ Statements[2] = "history" /\ Statements[3] = "links"
      /\ Statements[4] = "emails" /\ Statements[5] = "telegram" /\ Statements[6] = "chat"
      /\ Statements[7] = "video" /\ Statements[8] = "lifecycle" /\ Statements[9] = "statuses"
      /\ Len(Statements) = 9
  BY DEF Statements
<1>2. 1 .. 9 = {1, 2, 3, 4, 5, 6, 7, 8, 9} OBVIOUS
<1>3. Tables = {"history", "links", "emails", "statuses", "telegram", "chat", "video", "lifecycle"}
  BY DEF Tables, Logs
<1> QED BY <1>1, <1>2, <1>3

\* Which statements have run, by their number; one more has when the number goes up.
LEMMA DoneBy ==
    ASSUME request \in Request
    PROVE  /\ Done("history") <=> request.statement > 2
           /\ Done("links") <=> request.statement > 3
           /\ Done("emails") <=> request.statement > 4
           /\ Done("statuses") <=> request.statement > 9
           /\ request.statement > 9 => \A t \in Tables : Done(t)
           /\ request.statement = 9 => \A t \in Tables \ {"statuses"} : Done(t)
<1>1. request.statement \in 1 .. 10 BY StatementOrder DEF Request
<1> QED BY <1>1, StatementOrder DEF Done

\* The invariant has the types.
LEMMA InvTypes ==
    ASSUME Inv
    PROVE  TypeOK
<1>1. clicks \in [Idents -> 0 .. MaxChanges]
  BY MaxChangesAssumption DEF Inv, World
<1>2. \A t \in Tables : IdsOf(tables[t]) = 1 .. Cardinality(tables[t])
  BY DEF Inv, World, Numbered
<1> QED BY <1>1, <1>2 DEF Inv, World, RequestOK, CountsOK, Read, TypeOK

LEMMA InitInv ==
    ASSUME Init
    PROVE  Inv
<1>1. tables = [t \in Tables |-> {}] /\ before = tables /\ seen = tables /\ clicked = clicks
      /\ clicks = [i \in Idents |-> 0] /\ changes = 0 /\ counts = << >>
      /\ request.phase = "idle" /\ request.statement = 1
  BY DEF Init
<1>2. request \in Request
  <2>1. 1 \in 1 .. Len(Statements) + 1 BY StatementOrder
  <2> QED BY <2>1 DEF Init, Request
<1>3. Numbered({}, 0) BY FS_EmptySet DEF Numbered, IdsOf
<1>4. bookings \in [Bookings -> Booking \cup {None}] /\ \A b \in Known : bookings[b].organizer = None
  BY DEF Init, Booking, Known
<1>5. World BY <1>1, <1>3, <1>4, TableNames, MaxChangesAssumption DEF World
<1>6. HistoryOK BY <1>1 DEF HistoryOK, Kept
<1>7. \A t \in Tables : ~Done(t) BY <1>1, StatementOrder DEF Done
<1>8. RequestOK BY <1>1, <1>2 DEF RequestOK, Assembled
<1>9. ReadOK BY <1>1, <1>7, TableNames DEF ReadOK
<1>10. CountsOK BY <1>1 DEF CountsOK, CountsAreOwn
<1> QED BY <1>5, <1>6, <1>8, <1>9, <1>10 DEF Inv

LEMMA BeginInv ==
    ASSUME Inv, Begin
    PROVE  Inv'
<1> USE DEF Inv
<1>1. PICK b \in Bookings : request' = [request EXCEPT !.phase = "reading", !.uid = b]
  BY DEF Begin
<1>2. /\ request.phase = "idle" /\ before' = tables /\ seen' = tables
      /\ UNCHANGED <<world, counts, clicked>>
  BY DEF Begin
<1>3. request' \in Request /\ request'.phase = "reading" /\ request'.statement = 1
      /\ request'.uid = b /\ request'.rows = request.rows
  BY <1>1, <1>2 DEF RequestOK, Request
<1>4. World' BY <1>2 DEF world, World, Known
<1>5. HistoryOK' BY <1>2 DEF world, HistoryOK, World, Kept, Same
<1>6. RequestOK' BY <1>3 DEF RequestOK, Assembled
<1>7. \A t \in Tables : ~Done(t)' BY <1>3, StatementOrder DEF Done
<1>8. ReadOK' BY <1>3, <1>7, TableNames DEF ReadOK
<1>9. CountsOK' BY <1>2, <1>3 DEF CountsOK, CountsAreOwn, Read
<1> QED BY <1>4, <1>5, <1>6, <1>8, <1>9

LEMMA ReadBookingInv ==
    ASSUME Inv, ReadBooking
    PROVE  Inv'
<1> USE DEF Inv
<1>1. /\ request.phase = "reading" /\ request.statement = 1 /\ request \in Request
      /\ request.uid \in Bookings /\ UNCHANGED <<world, counts, history>>
  <2>1. request.statement \in 1 .. 10 BY StatementOrder DEF RequestOK, Request
  <2> QED BY <2>1, StatementOrder DEF ReadBooking, RequestOK
<1>2. World' BY <1>1 DEF world, World, Known
<1>3. HistoryOK' BY <1>1 DEF world, history, HistoryOK
<1>4. CASE bookings[request.uid] = None
  <2>1. request' = [request EXCEPT !.phase = "not_found"] BY <1>4 DEF ReadBooking
  <2>2. request' \in Request /\ request'.phase = "not_found" /\ request'.statement = 1
        /\ request'.uid = request.uid /\ request'.rows = request.rows
    BY <1>1, <2>1 DEF Request
  <2>3. RequestOK' BY <1>1, <2>2 DEF RequestOK, Assembled
  <2>4. \A t \in Tables : ~Done(t)' BY <2>2, StatementOrder DEF Done
  <2>5. ReadOK' BY <2>2, <2>4, TableNames DEF ReadOK
  <2>6. CountsOK' BY <1>1, <2>2 DEF CountsOK, CountsAreOwn, Read, world, history
  <2> QED BY <1>2, <1>3, <2>3, <2>5, <2>6
<1>5. CASE bookings[request.uid] # None
  <2>1. request' = [request EXCEPT !.head = bookings[request.uid], !.statement = @ + 1]
    BY <1>5 DEF ReadBooking
  <2>2. bookings[request.uid] \in Booking BY <1>1, <1>5 DEF World
  <2>3. request' \in Request /\ request'.phase = "reading" /\ request'.statement = 2
        /\ request'.uid = request.uid /\ request'.rows = request.rows
        /\ request'.head = bookings[request.uid]
    <3>1. 2 \in 1 .. Len(Statements) + 1 BY StatementOrder
    <3> DEFINE row == bookings[request.uid]
    <3>2. row \in Booking /\ request' = [request EXCEPT !.head = row, !.statement = @ + 1]
      BY <2>1, <2>2
    <3> HIDE DEF row
    <3>3. request' = [request EXCEPT !.head = row, !.statement = 2] BY <1>1, <3>2 DEF Request
    <3>4. request' \in Request BY <1>1, <3>1, <3>2, <3>3 DEF Request
    <3>5. request'.head = row /\ request'.statement = 2 /\ request'.uid = request.uid
          /\ request'.rows = request.rows /\ request'.phase = "reading"
      BY <1>1, <3>3 DEF Request
    <3> QED BY <3>4, <3>5 DEF row
  <2>4. RequestOK' BY <1>1, <2>3 DEF RequestOK, Assembled
  <2>5. \A t \in Tables : ~Done(t)' BY <2>3, StatementOrder, BookingIsNoTable DEF Done
  <2>6. request.uid \in Known BY <1>1, <1>5 DEF Known
  <2>7. ReadOK' BY <1>1, <2>3, <2>5, <2>6, TableNames DEF ReadOK, World, world
  <2>8. CountsOK' BY <1>1, <2>3 DEF CountsOK, CountsAreOwn, Read, world, history
  <2> QED BY <1>2, <1>3, <2>4, <2>7, <2>8
<1> QED BY <1>4, <1>5

\* A statement that reads a table other than the statuses reads all of the booking's.
LEMMA SelectedComplete ==
    ASSUME World, HistoryOK, request.uid \in Bookings, NEW t \in Tables \ {"statuses"}
    PROVE  /\ \A r \in Own(before[t], request.uid) :
                r.shown => \E q \in Selected(t, request) : q.id = r.id /\ q.user = r.user
           /\ Selected(t, request) \subseteq {r \in Own(seen[t], request.uid) : r.shown}
<1>1. Selected(t, request) = {r \in Own(tables[t], request.uid) : t = "chat" => r.shown}
  BY DEF Selected
<1>2. \A r \in Selected(t, request) : r \in tables[t] /\ r.of = request.uid /\ r.shown
  BY <1>1 DEF World, Own
<1>3. ASSUME NEW r \in Own(before[t], request.uid), r.shown
      PROVE  \E q \in Selected(t, request) : q.id = r.id /\ q.user = r.user
  <2>1. PICK q \in tables[t] : Same(q, r) BY DEF HistoryOK, Kept, Own
  <2>2. q \in Selected(t, request) BY <1>1, <1>3, <2>1 DEF Same, Own
  <2> QED BY <2>1, <2>2 DEF Same
<1> QED BY <1>2, <1>3 DEF HistoryOK, Own

LEMMA ReadTableInv ==
    ASSUME Inv, ReadTable
    PROVE  Inv'
<1> USE DEF Inv
<1> DEFINE t == Statements[request.statement]
           n == request.statement
<1>1. /\ request.phase = "reading" /\ n <= 9 /\ t # "booking"
      /\ request' = [request EXCEPT !.rows[t] = Selected(t, request), !.statement = @ + 1]
      /\ UNCHANGED <<world, counts, history>>
  BY StatementOrder DEF ReadTable
<1>2. request \in Request /\ request.uid \in Bookings BY <1>1 DEF RequestOK
<1>3. n \in 2 .. 9 /\ t \in Tables
  <2>1. n \in 1 .. 9 BY <1>1, <1>2, StatementOrder DEF Request
  <2> QED BY <1>1, <2>1, StatementOrder
<1>4. Selected(t, request) \subseteq tables[t] BY DEF Selected, Own
<1>5. Selected(t, request) \in SUBSET Row BY <1>3, <1>4 DEF World
<1> HIDE DEF t, n
<1>6. /\ request' \in Request /\ request'.phase = "reading" /\ request'.statement = n + 1
      /\ request'.uid = request.uid /\ request'.head = request.head
      /\ request'.rows[t] = Selected(t, request)
      /\ \A u \in Tables \ {t} : request'.rows[u] = request.rows[u]
  <2>1. n + 1 \in 1 .. Len(Statements) + 1 BY <1>3, StatementOrder
  <2>2. request'.rows = [request.rows EXCEPT ![t] = Selected(t, request)]
        /\ request'.statement = n + 1
    BY <1>1, <1>2 DEF Request, n
  <2> QED BY <1>1, <1>2, <1>3, <1>5, <2>1, <2>2 DEF Request
<1>7. /\ n + 1 > 2 <=> Done("history")'
      /\ n + 1 > 3 <=> Done("links")'
      /\ n + 1 > 4 <=> Done("emails")'
      /\ n + 1 > 9 <=> Done("statuses")'
      /\ \A u \in Tables : Done(u)' <=> (Done(u) \/ u = t)
  <2>1. \A u : Done(u) <=> \E i \in 1 .. 9 : Statements[i] = u /\ i < n
    BY StatementOrder DEF Done, n
  <2>2. \A u : Done(u)' <=> \E i \in 1 .. 9 : Statements[i] = u /\ i < n + 1
    BY <1>6, StatementOrder DEF Done
  <2>3. \A i \in 1 .. 9 : i < n + 1 <=> (i < n \/ i = n) BY <1>3
  <2> QED BY <1>3, <2>1, <2>2, <2>3, StatementOrder DEF t, n
<1>8. /\ n > 2 <=> Done("history")
      /\ n > 3 <=> Done("links")
      /\ n > 4 <=> Done("emails")
      /\ ~Done("statuses")
  BY <1>2, <1>3, DoneBy DEF n
<1>9. World' BY <1>1 DEF world, World, Known
<1>10. HistoryOK' BY <1>1 DEF world, history, HistoryOK
<1>11. RequestOK' BY <1>2, <1>6 DEF RequestOK, Assembled
<1>12. ASSUME NEW u \in Tables \ {"statuses"}, Done(u)'
       PROVE  Complete(u)'
  <2>1. CASE u = t
    <3>1. request'.rows[u] = Selected(u, request) BY <1>6, <2>1
    <3> QED BY <1>1, <1>2, <1>6, <3>1, SelectedComplete DEF Complete, Read, Own, history
  <2>2. CASE u # t
    <3>1. Complete(u) BY <1>7, <1>12, <2>2 DEF ReadOK
    <3>2. request'.rows[u] = request.rows[u] BY <1>6, <2>2
    <3> QED BY <1>1, <1>6, <3>1, <3>2 DEF Complete, Read, Own, history
  <2> QED BY <2>1, <2>2
<1>13. ASSUME request'.statement > 1, request'.head.organizer # None
       PROVE  /\ \E r \in tables'["history"] :
                   r.of = request'.uid /\ r.user = request'.head.organizer
              /\ Done("history")' => \E r \in request'.rows["history"] :
                                       r.user = request'.head.organizer
  <2>1. PICK r \in tables["history"] : r.of = request.uid /\ r.user = request.head.organizer
    BY <1>3, <1>6, <1>13 DEF ReadOK, n
  <2>2. CASE t = "history"
    <3>1. r \in Selected(t, request) BY <2>1, <2>2 DEF Selected, Own
    <3> QED BY <1>1, <1>6, <2>1, <2>2, <3>1 DEF world
  <2>3. CASE t # "history"
    <3>1. Done("history")' <=> Done("history") BY <1>7, <2>3, TableNames
    <3>2. request'.rows["history"] = request.rows["history"] BY <1>6, <2>3, TableNames
    <3> QED BY <1>1, <1>3, <1>6, <1>13, <2>1, <3>1, <3>2 DEF ReadOK, Read, world, n
  <2> QED BY <2>2, <2>3
<1>14. ASSUME Done("links")'
       PROVE  /\ \A l \in request'.rows["links"] : l.url \in Urls
              /\ \A l, m \in request'.rows["links"] : l.id = m.id => l = m
  <2>1. CASE t = "links"
    <3>1. request'.rows["links"] \subseteq tables["links"] BY <1>4, <1>6, <2>1
    <3>2. Numbered(tables["links"], changes) BY TableNames DEF World
    <3> QED BY <3>1, <3>2 DEF World, Numbered
  <2>2. CASE t # "links"
    BY <1>6, <1>7, <1>14, <2>2, TableNames DEF ReadOK, Read
  <2> QED BY <2>1, <2>2
<1>15. ASSUME Done("emails")', NEW e \in request'.rows["emails"], e.last # None
       PROVE  /\ \E s \in tables'["statuses"] : s.id = e.last /\ s.of = e.id
              /\ Done("statuses")' => \E s \in request'.rows["statuses"] : s.id = e.last /\ s.of = e.id
  <2>1. \E s \in tables["statuses"] : s.id = e.last /\ s.of = e.id
    <3>1. CASE t = "emails"
      <4>1. e \in tables["emails"] BY <1>4, <1>6, <1>15, <3>1
      <4> QED BY <4>1, <1>15 DEF World
    <3>2. CASE t # "emails"
      <4>1. Done("emails") /\ e \in Read("emails")
        BY <1>6, <1>7, <1>15, <3>2, TableNames DEF Read
      <4> QED BY <4>1, <1>15 DEF ReadOK
    <3> QED BY <3>1, <3>2
  <2>2. ASSUME Done("statuses")'
        PROVE  \E s \in request'.rows["statuses"] : s.id = e.last /\ s.of = e.id
    <3>1. t = "statuses" BY <1>7, <1>8, <2>2, TableNames
    <3>2. e \in request.rows["emails"] BY <1>6, <1>15, <3>1, TableNames
    <3>3. request'.rows["statuses"] = {s \in tables["statuses"] : s.of \in IdsOf(request.rows["emails"])}
      BY <1>6, <3>1 DEF Selected
    <3>4. e.id \in IdsOf(request.rows["emails"]) BY <3>2 DEF IdsOf
    <3> QED BY <2>1, <3>3, <3>4
  <2> QED BY <1>1, <2>1, <2>2 DEF world
<1>16. ReadOK'
  BY <1>12, <1>13, <1>14, <1>15 DEF ReadOK, Read
<1>17. CountsOK' BY <1>1, <1>6 DEF CountsOK, CountsAreOwn
<1> QED BY <1>9, <1>10, <1>11, <1>16, <1>17

\* A step that changes nothing but the phase leaves what was read as it is.
LEMMA ReadStays ==
    ASSUME Inv, UNCHANGED <<tables, before, seen>>,
           request'.uid = request.uid, request'.statement = request.statement,
           request'.head = request.head, request'.rows = request.rows
    PROVE  ReadOK' /\ \A t \in Tables : Done(t)' <=> Done(t)
<1>1. \A t : Done(t)' <=> Done(t) BY DEF Done
<1>2. \A t : Complete(t)' <=> Complete(t) BY DEF Complete, Read, Own
<1> QED BY <1>1, <1>2 DEF Inv, ReadOK, Read

LEMMA AssembleInv ==
    ASSUME Inv, Assemble
    PROVE  Inv'
<1> USE DEF Inv
<1>1. /\ request.phase = "reading" /\ request \in Request /\ clicked' = clicks
      /\ UNCHANGED <<world, counts, before, seen>>
  BY DEF Assemble, RequestOK
<1>2. PICK p \in {"answered", "counting"} : request' = [request EXCEPT !.phase = p]
  BY DEF Assemble
<1>3. /\ request' \in Request /\ request'.phase = p /\ request'.uid = request.uid
      /\ request'.statement = request.statement /\ request'.head = request.head
      /\ request'.rows = request.rows
  BY <1>1, <1>2 DEF Request
<1>4. World' BY <1>1 DEF world, World, Known
<1>5. HistoryOK' BY <1>1 DEF world, HistoryOK, World
<1>6. ReadOK' /\ \A t \in Tables : Done(t)' <=> Done(t) BY <1>1, <1>3, ReadStays DEF world
<1>7. (\A t \in Tables \ {"statuses"} : Done(t)) /\ (Done("statuses") \/ Read("emails") = {})
  <2>1. request.statement \in 1 .. 10 BY <1>1, StatementOrder DEF Request
  <2>2. request.statement > 9 \/ (request.statement = 9 /\ request.rows["emails"] = {})
    BY <2>1, StatementOrder DEF Assemble
  <2> QED BY <1>1, <2>2, DoneBy DEF Read
<1>8. RequestOK'
  <2>1. request.uid \in Bookings BY <1>1 DEF RequestOK
  <2>2. (\A t \in Tables \ {"statuses"} : Done(t)') /\ (Done("statuses")' \/ Read("emails")' = {})
    BY <1>3, <1>6, <1>7, TableNames DEF Read
  <2> QED BY <1>3, <2>1, <2>2 DEF RequestOK, Assembled
<1>9. CountsOK'
  <2>1. DOMAIN counts = {} BY <1>1 DEF CountsOK
  <2> QED BY <1>1, <1>3, <2>1 DEF CountsOK, CountsAreOwn
<1> QED BY <1>4, <1>5, <1>6, <1>8, <1>9

LEMMA CountInv ==
    ASSUME Inv, Count
    PROVE  Inv'
<1> USE DEF Inv
<1>1. PICK l \in request.rows["links"], n \in {None} \cup Int :
        /\ request.phase = "counting" /\ Place(l) \notin DOMAIN counts
        /\ n # None => Ident[l.url] # None /\ n = clicks[Ident[l.url]]
        /\ counts' = [m \in DOMAIN counts \cup {Place(l)} |->
                        IF m = Place(l) THEN n ELSE counts[m]]
        /\ request' = IF DOMAIN counts' = IdsOf(request.rows["links"])
                      THEN [request EXCEPT !.phase = "answered"] ELSE request
        /\ UNCHANGED <<world, history>>
  <2>1. PICK l \in request.rows["links"] : Place(l) \notin DOMAIN counts
           /\ \E n \in {None} \cup IF Ident[l.url] = None THEN {} ELSE {clicks[Ident[l.url]]} :
                counts' = [m \in DOMAIN counts \cup {Place(l)} |->
                             IF m = Place(l) THEN n ELSE counts[m]]
    BY DEF Count
  <2>2. PICK n \in {None} \cup IF Ident[l.url] = None THEN {} ELSE {clicks[Ident[l.url]]} :
          counts' = [m \in DOMAIN counts \cup {Place(l)} |->
                       IF m = Place(l) THEN n ELSE counts[m]]
    BY <2>1
  <2>3. n # None => Ident[l.url] # None /\ n = clicks[Ident[l.url]] BY <2>2
  <2>4. l.url \in Urls
    <3>1. Done("links") BY TableNames, "links" # "statuses" DEF Count, RequestOK, Assembled
    <3> QED BY <3>1 DEF ReadOK, Read
  <2>5. n # None => n \in Int
    BY <2>3, <2>4, IdentAssumption DEF World
  <2> QED BY <2>1, <2>2, <2>3, <2>5 DEF Count
<1>2. request \in Request /\ Done("links")
  BY <1>1, TableNames, "links" # "statuses" DEF RequestOK, Assembled
<1>3. Place(l) = l.id BY DEF Place
<1>4. l.url \in Urls /\ \A k, m \in Read("links") : k.id = m.id => k = m BY <1>2 DEF ReadOK, Read
<1>5. PICK p \in {"counting", "answered"} : request' = [request EXCEPT !.phase = p]
  <2>1. request = [request EXCEPT !.phase = "counting"] BY <1>1, <1>2 DEF Request
  <2> QED BY <1>1, <2>1
<1>6. /\ request' \in Request /\ request'.phase = p /\ request'.uid = request.uid
      /\ request'.statement = request.statement /\ request'.head = request.head
      /\ request'.rows = request.rows
  BY <1>2, <1>5 DEF Request
<1>7. World' BY <1>1 DEF world, World, Known
<1>8. HistoryOK' BY <1>1 DEF world, history, HistoryOK, World
<1>9. ReadOK' /\ \A t \in Tables : Done(t)' <=> Done(t) BY <1>1, <1>6, ReadStays DEF world, history
<1>10. RequestOK'
  <2>1. request.uid \in Bookings /\ (\A t \in Tables \ {"statuses"} : Done(t))
        /\ (Done("statuses") \/ Read("emails") = {})
    BY <1>1 DEF RequestOK, Assembled
  <2>2. (\A t \in Tables \ {"statuses"} : Done(t)') /\ (Done("statuses")' \/ Read("emails")' = {})
    BY <1>6, <1>9, <2>1, TableNames DEF Read
  <2> QED BY <1>6, <2>1, <2>2 DEF RequestOK, Assembled
<1>11. n = None \/ (Ident[l.url] \in Idents /\ n = clicks[Ident[l.url]])
  BY <1>1, <1>4, IdentAssumption
<1>12. DOMAIN counts' = DOMAIN counts \cup {l.id} BY <1>1, <1>3
<1>13. \A d \in DOMAIN counts' : counts'[d] = IF d = l.id THEN n ELSE counts[d] BY <1>1, <1>3
<1>14. n \in 0 .. MaxChanges \cup {None}
  BY <1>11, MaxChangesAssumption DEF World
<1>15. CountsAreOwn'
  <2> SUFFICES ASSUME NEW m \in request.rows["links"], m.id \in DOMAIN counts', counts'[m.id] # None
               PROVE  /\ Ident[m.url] # None
                      /\ counts'[m.id] \in clicked[Ident[m.url]] .. clicks[Ident[m.url]]
    BY <1>1, <1>6 DEF CountsAreOwn, Read, world, history
  <2>1. CASE m.id = l.id
    <3>1. m = l BY <1>4, <2>1 DEF Read
    <3>2. n # None /\ counts'[m.id] = n BY <1>13, <2>1
    <3>3. clicked[Ident[l.url]] \in Nat /\ clicks[Ident[l.url]] \in Nat
          /\ clicked[Ident[l.url]] <= clicks[Ident[l.url]]
      BY <1>11, <3>2 DEF HistoryOK, World
    <3> QED BY <1>1, <1>11, <3>1, <3>2, <3>3
  <2>2. CASE m.id # l.id
    <3>1. m.id \in DOMAIN counts /\ counts'[m.id] = counts[m.id] BY <1>12, <1>13, <2>2
    <3> QED BY <3>1 DEF CountsOK, CountsAreOwn, Read
  <2> QED BY <2>1, <2>2
<1>16. CountsOK'
  BY <1>6, <1>12, <1>13, <1>14, <1>15 DEF CountsOK, Read, IdsOf
<1> QED BY <1>7, <1>8, <1>9, <1>10, <1>16

LEMMA FailInv ==
    ASSUME Inv, Fail
    PROVE  Inv'
<1> USE DEF Inv
<1>1. /\ request' = [request EXCEPT !.phase = "failed"] /\ UNCHANGED <<world, counts, history>>
      /\ request.phase \in {"reading", "counting"}
  BY DEF Fail
<1>2. /\ request' \in Request /\ request'.phase = "failed" /\ request'.uid = request.uid
      /\ request'.statement = request.statement /\ request'.head = request.head
      /\ request'.rows = request.rows
  BY <1>1 DEF RequestOK, Request
<1>3. World' BY <1>1 DEF world, World, Known
<1>4. HistoryOK' BY <1>1 DEF world, history, HistoryOK, World
<1>5. ReadOK' BY <1>1, <1>2, ReadStays DEF world, history
<1>6. RequestOK' BY <1>1, <1>2 DEF RequestOK, Assembled
<1>7. CountsOK' BY <1>1, <1>2 DEF CountsOK, CountsAreOwn, Read, world, history
<1> QED BY <1>3, <1>4, <1>5, <1>6, <1>7

LEMMA ChangeInv ==
    ASSUME Inv, Change
    PROVE  Inv'
<1> USE DEF Inv
<1>1. World' /\ Grown BY ChangeKeepsWorld
<1>2. /\ seen' = [t \in Tables |-> seen[t] \cup tables'[t]]
      /\ UNCHANGED <<request, counts, before, clicked>>
  BY DEF Change
<1>3. HistoryOK'
  <2>1. seen' \in [Tables -> SUBSET Row] BY <1>1, <1>2 DEF HistoryOK, World
  <2>2. ASSUME NEW t \in Tables PROVE Kept(before[t], tables'[t])
    BY <1>1 DEF Grown, HistoryOK, Kept, Same
  <2>3. \A i \in Idents : clicked[i] <= clicks'[i]
    BY <1>1 DEF Grown, HistoryOK, World
  <2> QED BY <1>2, <2>1, <2>2, <2>3 DEF HistoryOK
<1>4. RequestOK' BY <1>2 DEF RequestOK, Assembled, Done, Read
<1>5. \A t : Done(t)' <=> Done(t) BY <1>2 DEF Done
<1>6. ASSUME NEW t \in Tables, Complete(t) PROVE Complete(t)'
  BY <1>2, <1>6 DEF Complete, Read, Own
<1>7. ReadOK'
  <2>1. tables["statuses"] \subseteq tables'["statuses"]
        /\ tables["history"] \subseteq tables'["history"]
    BY <1>1 DEF Grown
  <2> QED BY <1>2, <1>5, <1>6, <2>1 DEF ReadOK, Read
<1>8. CountsAreOwn'
  <2> SUFFICES ASSUME NEW l \in Read("links"), l.id \in DOMAIN counts, counts[l.id] # None
               PROVE  /\ Ident[l.url] # None
                      /\ counts[l.id] \in clicked[Ident[l.url]] .. clicks'[Ident[l.url]]
    BY <1>2 DEF CountsAreOwn, Read
  <2>1. /\ Ident[l.url] # None /\ counts[l.id] \in clicked[Ident[l.url]] .. clicks[Ident[l.url]]
    BY DEF CountsOK, CountsAreOwn
  <2>2. Ident[l.url] \in Idents
    <3>1. request.phase \notin {"idle", "reading", "not_found"} BY DEF CountsOK
    <3>2. request.phase \in {"counting"}
      BY <3>1 DEF Change
    <3>3. Done("links") BY <3>2, TableNames, "links" # "statuses" DEF RequestOK, Assembled
    <3>4. l.url \in Urls BY <3>3 DEF ReadOK
    <3> QED BY <2>1, <3>4, IdentAssumption
  <2>3. clicks[Ident[l.url]] \in Nat /\ clicks'[Ident[l.url]] \in Nat
        /\ clicked[Ident[l.url]] \in Nat /\ clicks[Ident[l.url]] <= clicks'[Ident[l.url]]
    BY <1>1, <2>2 DEF World, Grown, HistoryOK
  <2> QED BY <2>1, <2>3
<1>9. CountsOK' BY <1>2, <1>8 DEF CountsOK, Read
<1> QED BY <1>1, <1>3, <1>4, <1>7, <1>9

LEMMA Invariance == Spec => []Inv
<1>1. Init => Inv BY InitInv
<1>2. Inv /\ [Next]_vars => Inv'
  <2> SUFFICES ASSUME Inv, [Next]_vars PROVE Inv' OBVIOUS
  <2>1. CASE Begin BY <2>1, BeginInv
  <2>2. CASE ReadBooking BY <2>2, ReadBookingInv
  <2>3. CASE ReadTable BY <2>3, ReadTableInv
  <2>4. CASE Assemble BY <2>4, AssembleInv
  <2>5. CASE Count BY <2>5, CountInv
  <2>6. CASE Fail BY <2>6, FailInv
  <2>7. CASE Change BY <2>7, ChangeInv
  <2>8. CASE UNCHANGED vars
    <3>1. UNCHANGED <<bookings, tables, clicks, changes, request, counts, before, seen, clicked>>
      BY <2>8 DEF vars
    <3> QED BY <3>1 DEF Inv, World, HistoryOK, RequestOK, ReadOK, CountsOK, CountsAreOwn, Known,
                        Assembled, Done, Read, Complete, Own
  <2> QED BY <2>1, <2>2, <2>3, <2>4, <2>5, <2>6, <2>7, <2>8 DEF Next
<1> QED BY <1>1, <1>2, PTL DEF Spec
----
(***************************************************************************)
(* Theorems.                                                               *)
(***************************************************************************)

\* Types, and what the tables of event-saver promise, through any writes.
THEOREM TypeCorrect == Spec => []TypeOK
BY Invariance, InvTypes, PTL

\* get_booking_details loses no row that was there when the request came and mixes in
\* none of another booking, although every statement has its own snapshot.
THEOREM DetailsAreComplete == Spec => []DetailsComplete
<1>1. Inv => DetailsComplete
  BY DEF Inv, RequestOK, ReadOK, Complete, DetailsComplete, IdsOf
<1> QED BY <1>1, Invariance, PTL

\* The statuses are read after the notifications, so the last status of each is among
\* them.
THEOREM LastStatusesAreInHistory == Spec => []LastStatusInHistory
<1>1. ASSUME Inv PROVE LastStatusInHistory
  <2> SUFFICES ASSUME Assembled, NEW e \in Read("emails"), e.last # None
               PROVE  \E s \in Read("statuses") : s.id = e.last /\ s.of = e.id
    BY DEF LastStatusInHistory
  <2>1. Done("emails") /\ Done("statuses")
    BY <1>1, TableNames, "emails" # "statuses" DEF Inv, RequestOK
  <2> QED BY <1>1, <2>1 DEF Inv, ReadOK
<1> QED BY <1>1, Invariance, PTL

\* The history of the organizers is read after the booking, so its organizer is in it.
THEOREM OrganizersAreInHistory == Spec => []OrganizerInHistory
<1>1. ASSUME Inv PROVE OrganizerInHistory
  <2> SUFFICES ASSUME Assembled, request.head.organizer # None
               PROVE  \E r \in Read("history") : r.user = request.head.organizer
    BY DEF OrganizerInHistory
  <2>1. Done("history") BY <1>1, TableNames, "history" # "statuses" DEF Inv, RequestOK
  <2>2. request.statement > 1
    <3>1. request.statement \in 1 .. 10 BY <1>1, StatementOrder DEF Inv, RequestOK, Request
    <3> QED BY <1>1, <2>1, <3>1, DoneBy DEF Inv, RequestOK
  <2> QED BY <1>1, <2>1, <2>2 DEF Inv, ReadOK
<1> QED BY <1>1, Invariance, PTL

\* _client_meeting_url over the links read gives the client's link, or one no older than
\* any there was when the request came.
THEOREM ReminderLinksAreRight == Spec => []ReminderLinkIsRight
<1>1. ASSUME Inv PROVE ReminderLinkIsRight
  <2> SUFFICES ASSUME Assembled, request.head.client # None
               PROVE  LET url == MeetingUrl(Read("links"), request.head.client)
                          first == Own(before["links"], request.uid)
                          since == Own(seen["links"], request.uid)
                          his(rows) == {l \in rows : l.user = request.head.client} IN
                      /\ his(first) # {} => \E l \in his(since) : l.url = url
                      /\ his(since) = {} /\ url # None
                         => \E l \in since : l.url = url /\ \A m \in first : m.id <= l.id
                      /\ url = None => first = {}
    BY DEF ReminderLinkIsRight
  <2> DEFINE links == Read("links")
             c == request.head.client
             first == Own(before["links"], request.uid)
             since == Own(seen["links"], request.uid)
             own == {l \in links : l.user = c}
             url == MeetingUrl(links, c)
  <2>1. Done("links") /\ Complete("links")
    BY <1>1, TableNames, "links" # "statuses" DEF Inv, RequestOK, ReadOK
  <2>2. \A r \in first : \E q \in links : q.id = r.id /\ q.user = r.user
    <3>1. \A r \in before["links"] : r.shown
      BY <1>1, TableNames, "links" # "chat" DEF Inv, HistoryOK, Kept, Same, World
    <3> QED BY <2>1, <3>1 DEF Complete, Own
  <2>3. links \subseteq since /\ \A l \in links : l.url \in Urls /\ l.url # None
    BY <1>1, <2>1, NoneAssumption DEF Complete, Inv, ReadOK
  <2>4. links \in SUBSET Row BY <1>1, TableNames DEF Inv, RequestOK, Request, Read
  <2>5. CASE own # {}
    <3>1. url = (CHOOSE l \in own : TRUE).url BY <2>5 DEF MeetingUrl
    <3>2. PICK l \in own : l.url = url BY <2>5, <3>1
    <3> HIDE DEF url
    <3>3. l \in since /\ l.user = c /\ url # None BY <2>3, <3>2
    <3> QED BY <3>2, <3>3 DEF url
  <2>6. CASE own = {} /\ links # {}
    <3>1. url = (CHOOSE l \in links : \A m \in links : m.id <= l.id).url
      BY <2>6 DEF MeetingUrl, NewestUrl
    <3>2. \E l \in links : \A m \in links : m.id <= l.id BY <2>4, <2>6, LastRow
    <3>3. PICK l \in links : l.url = url /\ \A m \in links : m.id <= l.id BY <3>1, <3>2
    <3> HIDE DEF url
    <3>4. \A m \in first : m.id <= l.id BY <2>2, <3>3
    <3>5. \A m \in first : m.user # c BY <2>2, <2>6
    <3>6. l \in since /\ url # None BY <2>3, <3>3
    <3> QED BY <3>3, <3>4, <3>5, <3>6 DEF url
  <2>7. CASE links = {}
    <3>1. first = {} BY <2>2, <2>7
    <3>2. url = None BY <2>7 DEF MeetingUrl, NewestUrl
    <3> HIDE DEF url
    <3> QED BY <3>1, <3>2 DEF url
  <2> QED BY <2>5, <2>6, <2>7
<1> QED BY <1>1, Invariance, PTL

\* asyncio.gather gives every link the count of its own URL, in whatever order the
\* answers arrive and whatever is clicked meanwhile.
THEOREM CountsGoToTheirLinks == Spec => []CountsAreOwn
<1>1. Inv => CountsAreOwn BY DEF Inv, CountsOK
<1> QED BY <1>1, Invariance, PTL
====
