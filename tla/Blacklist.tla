---- MODULE Blacklist ----
(***************************************************************************)
(* The booking blacklist: the admin routes (routes.py) over the table      *)
(* blacklist_entries (adapters/blacklist_db.py).  Creating and deleting an *)
(* entry is one committed statement.  PATCH reads the entry, validates the *)
(* change against what it read, and writes in a second statement; other    *)
(* requests run between the two.                                           *)
(***************************************************************************)
EXTENDS Integers

CONSTANTS
    Ids,      \* entry ids
    Patches,  \* slots for PATCH requests in progress
    Fields,   \* what an entry can match on
    Values,   \* values as the admin spells them
    Strip,    \* str.strip on Values
    Lower,    \* str.lower on Values
    Blank,    \* the empty string
    Times,    \* instants
    Bodies    \* PATCH bodies

Email == "client_email"
NoBound == 0  \* NULL

\* The columns a request writes.  "is_active" and "comment" are left out: they are
\* stored as sent and no check looks at them.
Columns == {"field", "value", "active_from", "active_until"}

Row == [field : Fields, value : Values,
        active_from : Times \cup {NoBound}, active_until : Times \cup {NoBound}]

\* Some columns of a row.  A PATCH body sends at least one, and none with a value
\* the route refuses before it reads the entry (an empty body, a null).
Update == [sent : SUBSET Columns, row : Row]

ASSUME TextAssumption ==
    /\ Email \in Fields
    /\ Blank \in Values
    /\ Strip \in [Values -> Values] /\ Lower \in [Values -> Values]
    /\ \A v \in Values :
         /\ Strip[Strip[v]] = Strip[v]
         /\ Lower[Lower[v]] = Lower[v] /\ Strip[Lower[Strip[v]]] = Lower[Strip[v]]
         /\ Lower[v] = Blank => v = Blank

ASSUME TimesAssumption == Times \subseteq Nat \ {0} /\ Times # {}

ASSUME BodiesAssumption == Bodies \subseteq {b \in Update : b.sent # {}}

VARIABLES
    rows,     \* the table blacklist_entries
    deleted,  \* history: ids that were deleted; an id is never given out again
    patch,    \* each PATCH slot: empty, or the request that is about to write
    raced     \* history: ids that a PATCH wrote after another request had

vars == <<rows, deleted, patch, raced>>

Live == DOMAIN rows

\* A PATCH past its validation: the entry, the columns the client sent, and what
\* it is about to write.  "fresh" is history: the entry is as the PATCH read it.
Pending == [id : Ids, sent : SUBSET Columns, updates : Update, fresh : BOOLEAN]

\* A stored value is stripped and not blank.
Stored(v) == v \in Values \ {Blank} /\ Strip[v] = v

\* The types of the variables; values are stored stripped and none is blank.
TypeOK ==
    /\ Live \subseteq Ids /\ deleted \subseteq Ids \ Live /\ raced \subseteq Live \cup deleted
    /\ \A i \in Live : rows[i] \in Row /\ Stored(rows[i].value)
    /\ patch \in [Patches -> SUBSET Pending]
    /\ \A p \in Patches : \A q \in patch[p] :
         /\ q.id \in Live \cup deleted
         /\ Stored(q.updates.row.value)
         /\ q.sent \subseteq q.updates.sent /\ q.updates.sent \subseteq q.sent \cup {"value"}
----
(***************************************************************************)
(* Validation.  Operators named Unchecked..., Sent..., Lowered... and      *)
(* Upserting... are variants of the one that follows them with a plausible *)
(* bug; no specification uses them.                                        *)
(***************************************************************************)

\* _normalize_blacklist_value
Normalize(field, value) == IF field = Email THEN Lower[Strip[value]] ELSE Strip[value]

UncheckedWindowOk(row) == TRUE

\* _validate_active_window
WindowOk(row) ==
    \/ row.active_from = NoBound \/ row.active_until = NoBound
    \/ row.active_from <= row.active_until

UncheckedValid(row) == WindowOk(row)

\* What create and update refuse with a 400, seen on the entry that would result.
Valid(row) == WindowOk(row) /\ Strip[row.value] # Blank

\* The row with the columns of u replaced.
Merged(row, u) ==
    [c \in Columns |-> IF c \in u.sent THEN u.row[c] ELSE row[c]]

SentUpdates(row, b) ==
    LET m == Merged(row, b) IN
    [b EXCEPT !.row.value = Normalize(m.field, m.value)]

LoweredUpdates(row, b) ==
    [sent |-> b.sent \cup {"value"},
     row  |-> [b.row EXCEPT !.value = Normalize(Email, Merged(row, b).value)]]

\* The columns update_blacklist_entry writes: those sent, and the value of every
\* entry whose field is, or becomes, client_email, normalised again.
Updates(row, b) ==
    LET m == Merged(row, b) IN
    [sent |-> b.sent \cup (IF m.field = Email THEN {"value"} ELSE {}),
     row  |-> [b.row EXCEPT !.value = Normalize(m.field, m.value)]]
----
(***************************************************************************)
(* The routes.                                                             *)
(***************************************************************************)

Init ==
    /\ rows = [i \in {} |-> 0]
    /\ deleted = {}
    /\ patch = [p \in Patches |-> {}]
    /\ raced = {}

\* POST: validate, normalise, insert.
Create(i, row) ==
    /\ i \notin Live \cup deleted
    /\ Valid(row)
    /\ rows' = [j \in Live \cup {i} |->
         IF j = i THEN [row EXCEPT !.value = Normalize(row.field, row.value)] ELSE rows[j]]
    /\ UNCHANGED <<deleted, patch, raced>>

\* DELETE
Delete(i) ==
    /\ i \in Live
    /\ rows' = [j \in Live \ {i} |-> rows[j]]
    /\ deleted' = deleted \cup {i}
    /\ UNCHANGED <<patch, raced>>

\* PATCH up to its write: get_entry, and the checks against what it returned.
ReadPatch(p, i, b) ==
    /\ patch[p] = {}
    /\ i \in Live
    /\ Valid(Merged(rows[i], b))
    /\ patch' = [patch EXCEPT ![p] =
         {[id |-> i, sent |-> b.sent, updates |-> Updates(rows[i], b), fresh |-> TRUE]}]
    /\ UNCHANGED <<rows, deleted, raced>>

\* Once request p has written entry i, the other PATCHes of i have read what is no
\* longer stored.
AfterWrite(p, i) ==
    [o \in Patches |->
       IF o = p THEN {}
       ELSE {IF q.id = i THEN [q EXCEPT !.fresh = FALSE] ELSE q : q \in patch[o]}]

UpsertingWritePatch(p) ==
    \E q \in patch[p] :
        /\ rows' = [j \in Live \cup {q.id} |->
                      IF j # q.id THEN rows[j]
                      ELSE IF j \in Live THEN Merged(rows[j], q.updates) ELSE q.updates.row]
        /\ patch' = AfterWrite(p, q.id)
        /\ raced' = IF q.fresh THEN raced ELSE raced \cup {q.id}
        /\ UNCHANGED deleted

\* PATCH's write: UPDATE ... WHERE id, nothing but a 404 if the entry is gone.
WritePatch(p) ==
    \E q \in patch[p] :
        /\ rows' = [j \in Live |-> IF j = q.id THEN Merged(rows[j], q.updates) ELSE rows[j]]
        /\ patch' = AfterWrite(p, q.id)
        /\ raced' = IF q.fresh THEN raced ELSE raced \cup {q.id}
        /\ UNCHANGED deleted

\* The process or the database fails before the write: nothing was changed.
LosePatch(p) ==
    /\ patch[p] # {}
    /\ patch' = [patch EXCEPT ![p] = {}]
    /\ UNCHANGED <<rows, deleted, raced>>

Next ==
    \/ \E i \in Ids : Delete(i) \/ \E row \in Row : Create(i, row)
    \/ \E p \in Patches :
         \/ \E i \in Ids, b \in Bodies : ReadPatch(p, i, b)
         \/ WritePatch(p) \/ LosePatch(p)

Spec == Init /\ [][Next]_vars
----
(***************************************************************************)
(* Properties.                                                             *)
(***************************************************************************)

\* event-booking compares client_email values exactly, so they are stored
\* lowercased.
Lowercased(row) == row.field = Email => Lower[row.value] = row.value

\* An entry is lowercased whichever request wrote its field and whichever its value,
\* unless a PATCH wrote over a change it had not read.
EmailsLowercased == \A i \in Live \ raced : Lowercased(rows[i])

\* The window part of _EFFECTIVE_CONDITION at instant t.
InWindow(row, t) ==
    /\ row.active_from = NoBound \/ row.active_from <= t
    /\ row.active_until = NoBound \/ row.active_until >= t

CanOpen(row) == \E t \in Times : InWindow(row, t)

\* No entry has a window in which it can never take effect, unless a PATCH wrote
\* over a change it had not read.
WindowsCanOpen == \A i \in Live \ raced : CanOpen(rows[i])

\* The same of every entry: active_from after active_until is refused with
\* invalid_active_window (docs/API_CONTRACTS.md:405 and :413).
EveryWindowCanOpen == \A i \in Live : CanOpen(rows[i])

\* The columns of the entry that the PATCH q changes with this step.
Changed(q) ==
    {c \in Columns : q.id \in Live \cap DOMAIN rows' /\ rows'[q.id][c] # rows[q.id][c]}

\* What the client sent, or implied by sending a new field.
Meant(q) == q.sent \cup (IF "field" \in q.sent THEN {"value"} ELSE {})

\* "omitted fields are left untouched" (routes.py:637): unless a PATCH writes over a
\* change it had not read, or one did before, it changes only what the client meant.
OmittedUntouched ==
    [][\A p \in Patches : \A q \in patch[p] :
         patch'[p] = {} /\ q.fresh /\ q.id \notin raced => Changed(q) \subseteq Meant(q)]_vars

\* The same of every PATCH, whatever other requests did since it read the entry.
EveryOmittedUntouched ==
    [][\A p \in Patches : \A q \in patch[p] :
         patch'[p] = {} => Changed(q) \subseteq Meant(q)]_vars

\* Whatever runs at the same time, a PATCH changes no column but those it was sent
\* and the value, nothing of another entry, and does not bring back an entry that
\* was deleted after it was read.
OnlySentWritten ==
    [][\A p \in Patches : \A q \in patch[p] :
         patch'[p] = {} =>
           /\ Changed(q) \subseteq q.sent \cup {"value"}
           /\ DOMAIN rows' \subseteq Live
           /\ \A i \in Live \ {q.id} : i \in DOMAIN rows' => rows'[i] = rows[i]]_vars
====
