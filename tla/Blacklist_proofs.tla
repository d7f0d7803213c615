---- MODULE Blacklist_proofs ----
(***************************************************************************)
(* Proofs about Blacklist, for any entries, values, bodies and number of   *)
(* concurrent PATCHes.                                                     *)
(***************************************************************************)
EXTENDS Blacklist, TLAPS

\* A PATCH slot holds at most one request.
OneEach == \A p \in Patches : \A q, r \in patch[p] : q = r

\* The windows of entries that no race has touched are in order.
WindowsOrdered == \A i \in Live \ raced : WindowOk(rows[i])

\* What a PATCH has validated still holds as long as the entry is as it read it.
StillValid ==
    \A p \in Patches : \A q \in patch[p] :
        q.fresh /\ q.id \in Live =>
            /\ Lowercased(Merged(rows[q.id], q.updates))
            /\ WindowOk(Merged(rows[q.id], q.updates))

\* A value it writes without having been told to is the one that is stored.
StillSame ==
    \A p \in Patches : \A q \in patch[p] :
        q.fresh /\ q.id \in Live \ raced /\ "value" \notin Meant(q) /\ "value" \in q.updates.sent
        => q.updates.row.value = rows[q.id].value

Inv == TypeOK /\ OneEach /\ EmailsLowercased /\ WindowsOrdered /\ StillValid /\ StillSame
----
(***************************************************************************)
(* Validation and merging.                                                 *)
(***************************************************************************)

\* Normalising a value that is not blank gives a value that may be stored, and a
\* lowercased one for client_email.
LEMMA NormalizeStored ==
    ASSUME NEW field, NEW v \in Values, Strip[v] # Blank
    PROVE  Stored(Normalize(field, v)) /\ (field = Email => Lower[Normalize(field, v)] = Normalize(field, v))
BY TextAssumption DEF Normalize, Stored

\* Replacing columns of a row with those of another gives a row.
LEMMA MergedRow ==
    ASSUME NEW row \in Row, NEW u \in Update
    PROVE  Merged(row, u) \in Row
BY DEF Merged, Row, Update, Columns

\* What a PATCH writes has the shape of an update, sends what the client sent and at
\* most the value besides, and its value may be stored.
LEMMA UpdatesShape ==
    ASSUME NEW row \in Row, NEW b \in Bodies, Valid(Merged(row, b))
    PROVE  LET u == Updates(row, b) IN
           /\ u \in Update
           /\ Stored(u.row.value)
           /\ b.sent \subseteq u.sent /\ u.sent \subseteq b.sent \cup {"value"}
           /\ u.row.field = b.row.field
           /\ u.row.active_from = b.row.active_from /\ u.row.active_until = b.row.active_until
           /\ u.row.value = Normalize(Merged(row, b).field, Merged(row, b).value)
           /\ "value" \in u.sent <=> "value" \in b.sent \/ Merged(row, b).field = Email
<1> DEFINE m == Merged(row, b)
           u == Updates(row, b)
<1>1. b \in Update BY BodiesAssumption
<1>2. m \in Row BY <1>1, MergedRow
<1>3. m.value \in Values /\ Strip[m.value] # Blank BY <1>2 DEF Row, Valid
<1>4. Stored(Normalize(m.field, m.value)) BY <1>3, NormalizeStored
<1>5. b.row \in Row /\ b.sent \in SUBSET Columns BY <1>1 DEF Update
<1>6. u.row = [b.row EXCEPT !.value = Normalize(m.field, m.value)] BY DEF Updates
<1>7. u.sent = b.sent \cup (IF m.field = Email THEN {"value"} ELSE {}) BY DEF Updates
<1>8. u.row \in Row BY <1>4, <1>5, <1>6 DEF Row, Stored
<1>9. u \in Update BY <1>5, <1>7, <1>8 DEF Update, Updates, Columns
<1> HIDE DEF m
<1> QED BY <1>4, <1>5, <1>6, <1>7, <1>9 DEF Row, m, u

\* The entry a PATCH has validated is lowercased and has an ordered window once the
\* update is merged into the row it read; and if it writes the value unasked, it
\* writes the one it read, provided that was lowercased.
LEMMA UpdatesValid ==
    ASSUME NEW row \in Row, Stored(row.value), NEW b \in Bodies, Valid(Merged(row, b))
    PROVE  LET u == Updates(row, b) IN
           /\ Lowercased(Merged(row, u)) /\ WindowOk(Merged(row, u))
           /\ Lowercased(row) /\ b.sent \cap {"field", "value"} = {} /\ "value" \in u.sent
              => u.row.value = row.value
<1> DEFINE m == Merged(row, b)
           u == Updates(row, b)
           n == Merged(row, u)
<1>1. b \in Update BY BodiesAssumption
<1>2. m \in Row BY <1>1, MergedRow
<1>3. m.value \in Values /\ Strip[m.value] # Blank BY <1>2 DEF Row, Valid
<1>4. m.field = Email => Lower[Normalize(m.field, m.value)] = Normalize(m.field, m.value)
  BY <1>3, NormalizeStored
<1>5. /\ b.sent \subseteq u.sent /\ u.sent \subseteq b.sent \cup {"value"}
      /\ u.row.field = b.row.field
      /\ u.row.active_from = b.row.active_from /\ u.row.active_until = b.row.active_until
      /\ u.row.value = Normalize(m.field, m.value)
      /\ "value" \in u.sent <=> "value" \in b.sent \/ m.field = Email
  BY UpdatesShape
<1>6. n.field = m.field /\ n.active_from = m.active_from /\ n.active_until = m.active_until
  BY <1>5 DEF Merged, Columns
<1>7. Lowercased(n)
  <2> SUFFICES ASSUME m.field = Email PROVE Lower[n.value] = n.value
    BY <1>6 DEF Lowercased
  <2>1. n.value = u.row.value BY <1>5 DEF Merged, Columns
  <2> QED BY <2>1, <1>4, <1>5
<1>8. WindowOk(n) BY <1>6 DEF Valid, WindowOk
<1>9. ASSUME Lowercased(row), b.sent \cap {"field", "value"} = {}, "value" \in u.sent
      PROVE  u.row.value = row.value
  <2>1. m.field = row.field /\ m.value = row.value BY <1>9 DEF Merged, Columns
  <2>2. m.field = Email BY <1>5, <1>9
  <2> QED BY <2>1, <2>2, <1>5, <1>9 DEF Normalize, Lowercased, Stored
<1> QED BY <1>7, <1>8, <1>9
----
(***************************************************************************)
(* The invariant.                                                          *)
(***************************************************************************)

LEMMA InitInv == Init => Inv
BY DEF Init, Inv, TypeOK, OneEach, EmailsLowercased, WindowsOrdered, StillValid, StillSame, Live

LEMMA CreateInv ==
    ASSUME Inv, NEW i \in Ids, NEW row \in Row, Create(i, row)
    PROVE  Inv'
<1> DEFINE new == [row EXCEPT !.value = Normalize(row.field, row.value)]
<1>1. DOMAIN rows' = Live \cup {i} /\ i \notin Live \cup deleted /\ Valid(row)
  BY DEF Create
<1>2. rows'[i] = new /\ \A j \in Live : rows'[j] = rows[j]
  BY <1>1 DEF Create
<1>3. UNCHANGED <<deleted, patch, raced>> BY DEF Create
<1>4. /\ Stored(Normalize(row.field, row.value))
      /\ row.field = Email => Lower[Normalize(row.field, row.value)] = Normalize(row.field, row.value)
  <2>1. row.value \in Values /\ Strip[row.value] # Blank BY <1>1 DEF Row, Valid
  <2> QED BY <2>1, NormalizeStored
<1>5. new \in Row /\ Stored(new.value) /\ Lowercased(new) /\ WindowOk(new)
  BY <1>1, <1>4 DEF Row, Stored, Valid, WindowOk, Lowercased
<1>6. \A p \in Patches : \A q \in patch[p] : q.id \in Live \cup deleted /\ q.id # i
  BY <1>1 DEF Inv, TypeOK
<1> HIDE DEF new
<1>7. TypeOK' BY <1>1, <1>2, <1>3, <1>5 DEF Inv, TypeOK, Live
<1>8. (EmailsLowercased /\ WindowsOrdered)'
  BY <1>1, <1>2, <1>3, <1>5 DEF Inv, EmailsLowercased, WindowsOrdered, Live
<1>9. (StillValid /\ StillSame)'
  BY <1>1, <1>2, <1>3, <1>6 DEF Inv, StillValid, StillSame, Live, Meant
<1> QED BY <1>3, <1>7, <1>8, <1>9 DEF Inv, OneEach

LEMMA DeleteInv ==
    ASSUME Inv, NEW i \in Ids, Delete(i)
    PROVE  Inv'
<1>1. DOMAIN rows' = Live \ {i} /\ \A j \in Live \ {i} : rows'[j] = rows[j]
  BY DEF Delete
<1>2. deleted' = deleted \cup {i} /\ UNCHANGED <<patch, raced>> BY DEF Delete
<1>3. TypeOK' BY <1>1, <1>2 DEF Inv, TypeOK, Live
<1>4. (EmailsLowercased /\ WindowsOrdered)'
  BY <1>1, <1>2 DEF Inv, EmailsLowercased, WindowsOrdered, Live
<1>5. (StillValid /\ StillSame)'
  BY <1>1, <1>2 DEF Inv, StillValid, StillSame, Live, Meant
<1> QED BY <1>2, <1>3, <1>4, <1>5 DEF Inv, OneEach

LEMMA ReadPatchInv ==
    ASSUME Inv, NEW p \in Patches, NEW i \in Ids, NEW b \in Bodies, ReadPatch(p, i, b)
    PROVE  Inv'
<1> DEFINE u == Updates(rows[i], b)
           new == [id |-> i, sent |-> b.sent, updates |-> u, fresh |-> TRUE]
<1>1. i \in Live /\ rows[i] \in Row /\ Stored(rows[i].value) /\ Valid(Merged(rows[i], b))
  BY DEF ReadPatch, Inv, TypeOK
<1>2. patch' = [patch EXCEPT ![p] = {new}] /\ UNCHANGED <<rows, deleted, raced>>
  BY DEF ReadPatch
<1>3. b \in Update BY BodiesAssumption
<1>4. /\ u \in Update /\ Stored(u.row.value)
      /\ b.sent \subseteq u.sent /\ u.sent \subseteq b.sent \cup {"value"}
  BY <1>1, UpdatesShape
<1>5. /\ Lowercased(Merged(rows[i], u)) /\ WindowOk(Merged(rows[i], u))
      /\ Lowercased(rows[i]) /\ b.sent \cap {"field", "value"} = {} /\ "value" \in u.sent
         => u.row.value = rows[i].value
  BY <1>1, UpdatesValid
<1>6. patch \in [Patches -> SUBSET Pending] BY DEF Inv, TypeOK
<1>7. patch'[p] = {new} /\ \A o \in Patches \ {p} : patch'[o] = patch[o]
  BY <1>2, <1>6
<1> HIDE DEF u
<1>8. new \in Pending BY <1>3, <1>4 DEF Pending, Update
<1>9. TypeOK'
  <2>1. patch' \in [Patches -> SUBSET Pending] BY <1>2, <1>6, <1>8
  <2>2. ASSUME NEW o \in Patches, NEW q \in patch'[o]
        PROVE  /\ q.id \in Live \cup deleted /\ Stored(q.updates.row.value)
               /\ q.sent \subseteq q.updates.sent /\ q.updates.sent \subseteq q.sent \cup {"value"}
    <3>1. CASE o = p
      <4>1. q = new BY <3>1, <1>7
      <4> QED BY <4>1, <1>1, <1>4
    <3>2. CASE o # p BY <3>2, <1>7 DEF Inv, TypeOK
    <3> QED BY <3>1, <3>2
  <2> QED BY <2>1, <2>2, <1>2 DEF Inv, TypeOK, Live
<1>10. OneEach'
  <2> SUFFICES ASSUME NEW o \in Patches, NEW q \in patch'[o], NEW r \in patch'[o]
               PROVE  q = r
    BY DEF OneEach
  <2> HIDE DEF new
  <2>1. CASE o = p BY <2>1, <1>7
  <2>2. CASE o # p BY <2>2, <1>7 DEF Inv, OneEach
  <2> QED BY <2>1, <2>2
<1>11. (EmailsLowercased /\ WindowsOrdered)'
  BY <1>2 DEF Inv, EmailsLowercased, WindowsOrdered, Live
<1>12. StillValid' BY <1>2, <1>5, <1>7 DEF Inv, StillValid, Live
<1>13. StillSame'
  <2> SUFFICES ASSUME NEW o \in Patches, NEW q \in patch'[o],
                      q.fresh, q.id \in Live \ raced, "value" \notin Meant(q),
                      "value" \in q.updates.sent
               PROVE  q.updates.row.value = rows[q.id].value
    BY <1>2 DEF StillSame, Live, Meant
  <2>1. CASE o = p
    <3>1. q = new BY <2>1, <1>7
    <3>2. b.sent \cap {"field", "value"} = {} BY <3>1 DEF Meant
    <3>3. Lowercased(rows[i]) BY <3>1 DEF Inv, EmailsLowercased
    <3> QED BY <3>1, <3>2, <3>3, <1>5
  <2>2. CASE o # p BY <2>2, <1>7 DEF Inv, StillSame, Meant
  <2> QED BY <2>1, <2>2
<1> QED BY <1>9, <1>10, <1>11, <1>12, <1>13 DEF Inv

\* What a PATCH's write does, told by the request it finds in its slot.
LEMMA WriteEffect ==
    ASSUME Inv, NEW p \in Patches, NEW q \in patch[p], WritePatch(p)
    PROVE  /\ DOMAIN rows' = Live
           /\ q.id \in Live => rows'[q.id] = Merged(rows[q.id], q.updates)
           /\ \A j \in Live \ {q.id} : rows'[j] = rows[j]
           /\ patch' = AfterWrite(p, q.id)
           /\ raced' = IF q.fresh THEN raced ELSE raced \cup {q.id}
           /\ UNCHANGED deleted
<1>1. PICK r \in patch[p] :
        /\ rows' = [j \in Live |-> IF j = r.id THEN Merged(rows[j], r.updates) ELSE rows[j]]
        /\ patch' = AfterWrite(p, r.id)
        /\ raced' = IF r.fresh THEN raced ELSE raced \cup {r.id}
        /\ UNCHANGED deleted
  BY DEF WritePatch
<1>2. r = q BY DEF Inv, OneEach
<1> QED BY <1>1, <1>2

\* A request that is pending after a write of entry i was pending before, and is
\* fresh only if it is for another entry.
LEMMA AfterWritePending ==
    ASSUME TypeOK, NEW p \in Patches, NEW i \in Ids,
           NEW o \in Patches, NEW r \in AfterWrite(p, i)[o]
    PROVE  /\ o # p /\ r \in Pending
           /\ \E s \in patch[o] :
                /\ r.id = s.id /\ r.sent = s.sent /\ r.updates = s.updates
                /\ r.fresh => s.fresh /\ s.id # i /\ r = s
<1>1. o # p /\ r \in {IF s.id = i THEN [s EXCEPT !.fresh = FALSE] ELSE s : s \in patch[o]}
  BY DEF AfterWrite
<1>2. PICK s \in patch[o] : r = IF s.id = i THEN [s EXCEPT !.fresh = FALSE] ELSE s
  BY <1>1
<1>3. s \in Pending BY DEF TypeOK
<1> QED BY <1>1, <1>2, <1>3 DEF Pending

LEMMA WritePatchInv ==
    ASSUME Inv, NEW p \in Patches, WritePatch(p)
    PROVE  Inv'
<1>1. PICK q \in patch[p] : TRUE BY DEF WritePatch
<1>2. q \in Pending /\ q.id \in Live \cup deleted /\ Stored(q.updates.row.value)
  BY DEF Inv, TypeOK
<1>3. /\ DOMAIN rows' = Live
      /\ q.id \in Live => rows'[q.id] = Merged(rows[q.id], q.updates)
      /\ \A j \in Live \ {q.id} : rows'[j] = rows[j]
      /\ patch' = AfterWrite(p, q.id)
      /\ raced' = IF q.fresh THEN raced ELSE raced \cup {q.id}
      /\ UNCHANGED deleted
  BY WriteEffect
<1>4. q.id \in Ids /\ q.updates \in Update BY <1>2 DEF Pending
<1>5. \A o \in Patches : \A r \in patch'[o] :
        /\ o # p /\ r \in Pending
        /\ \E s \in patch[o] :
             /\ r.id = s.id /\ r.sent = s.sent /\ r.updates = s.updates
             /\ r.fresh => s.fresh /\ s.id # q.id /\ r = s
  BY <1>3, <1>4, AfterWritePending DEF Inv
<1>6. TypeOK'
  <2>1. ASSUME NEW j \in Live PROVE rows'[j] \in Row /\ Stored(rows'[j].value)
    <3>1. rows[j] \in Row /\ Stored(rows[j].value) BY DEF Inv, TypeOK
    <3>2. CASE j = q.id
      <4>1. Merged(rows[j], q.updates) \in Row BY <3>1, <1>4, MergedRow
      <4>2. Merged(rows[j], q.updates).value \in {rows[j].value, q.updates.row.value}
        BY DEF Merged, Columns
      <4> QED BY <3>1, <3>2, <4>1, <4>2, <1>2, <1>3
    <3>3. CASE j # q.id BY <3>1, <3>3, <1>3
    <3> QED BY <3>2, <3>3
  <2>2. patch' \in [Patches -> SUBSET Pending]
    <3>1. patch' = [o \in Patches |-> patch'[o]] BY <1>3 DEF AfterWrite
    <3> QED BY <3>1, <1>5
  <2>3. ASSUME NEW o \in Patches, NEW r \in patch'[o]
        PROVE  /\ r.id \in Live \cup deleted /\ Stored(r.updates.row.value)
               /\ r.sent \subseteq r.updates.sent /\ r.updates.sent \subseteq r.sent \cup {"value"}
    BY <1>5 DEF Inv, TypeOK
  <2> QED BY <2>1, <2>2, <2>3, <1>2, <1>3 DEF Inv, TypeOK, Live
<1>7. OneEach'
  <2> SUFFICES ASSUME NEW o \in Patches, NEW r \in patch'[o], NEW s \in patch'[o]
               PROVE  r = s
    BY DEF OneEach
  <2>1. o # p BY <1>5
  <2>2. patch'[o] = {IF x.id = q.id THEN [x EXCEPT !.fresh = FALSE] ELSE x : x \in patch[o]}
    BY <2>1, <1>3 DEF AfterWrite
  <2>3. \A x, y \in patch[o] : x = y BY DEF Inv, OneEach
  <2> QED BY <2>2, <2>3
<1>8. (EmailsLowercased /\ WindowsOrdered)'
  <2> SUFFICES ASSUME NEW j \in Live \ raced'
               PROVE  Lowercased(rows'[j]) /\ WindowOk(rows'[j])
    BY <1>3 DEF EmailsLowercased, WindowsOrdered, Live
  <2>1. j \notin raced BY <1>3
  <2>2. CASE j = q.id
    <3>1. q.fresh BY <2>2, <1>3
    <3> QED BY <2>2, <3>1, <1>3 DEF Inv, StillValid
  <2>3. CASE j # q.id
    BY <2>1, <2>3, <1>3 DEF Inv, EmailsLowercased, WindowsOrdered
  <2> QED BY <2>2, <2>3
<1>9. (StillValid /\ StillSame)'
  <2> SUFFICES ASSUME NEW o \in Patches, NEW r \in patch'[o], r.fresh, r.id \in Live
               PROVE  /\ Lowercased(Merged(rows'[r.id], r.updates))
                      /\ WindowOk(Merged(rows'[r.id], r.updates))
                      /\ r.id \notin raced' /\ "value" \notin Meant(r) /\ "value" \in r.updates.sent
                         => r.updates.row.value = rows'[r.id].value
    BY <1>3 DEF StillValid, StillSame, Live, Meant
  <2>1. r \in patch[o] /\ r.id # q.id BY <1>5
  <2>2. rows'[r.id] = rows[r.id] /\ (r.id \notin raced' => r.id \notin raced) BY <2>1, <1>3
  <2> QED BY <2>1, <2>2 DEF Inv, StillValid, StillSame
<1> QED BY <1>6, <1>7, <1>8, <1>9 DEF Inv

LEMMA LosePatchInv ==
    ASSUME Inv, NEW p \in Patches, LosePatch(p)
    PROVE  Inv'
<1>1. patch \in [Patches -> SUBSET Pending] BY DEF Inv, TypeOK
<1>2. patch' = [patch EXCEPT ![p] = {}] /\ UNCHANGED <<rows, deleted, raced>> BY DEF LosePatch
<1>3. patch' \in [Patches -> SUBSET Pending] /\ \A o \in Patches : patch'[o] \subseteq patch[o]
  BY <1>1, <1>2
<1> QED
  BY <1>2, <1>3 DEF Inv, TypeOK, OneEach, EmailsLowercased, WindowsOrdered, StillValid, StillSame,
                    Live, Meant

LEMMA StepInv == Inv /\ [Next]_vars => Inv'
<1> SUFFICES ASSUME Inv, [Next]_vars PROVE Inv'
  OBVIOUS
<1>1. ASSUME NEW i \in Ids, Delete(i) PROVE Inv' BY <1>1, DeleteInv
<1>2. ASSUME NEW i \in Ids, NEW row \in Row, Create(i, row) PROVE Inv' BY <1>2, CreateInv
<1>3. ASSUME NEW p \in Patches, NEW i \in Ids, NEW b \in Bodies, ReadPatch(p, i, b) PROVE Inv'
  BY <1>3, ReadPatchInv
<1>4. ASSUME NEW p \in Patches, WritePatch(p) PROVE Inv' BY <1>4, WritePatchInv
<1>5. ASSUME NEW p \in Patches, LosePatch(p) PROVE Inv' BY <1>5, LosePatchInv
<1>6. CASE UNCHANGED vars
  BY <1>6 DEF vars, Inv, TypeOK, OneEach, EmailsLowercased, WindowsOrdered, StillValid, StillSame,
              Live, Meant
<1> QED BY <1>1, <1>2, <1>3, <1>4, <1>5, <1>6 DEF Next

LEMMA AlwaysInv == Spec => []Inv
BY InitInv, StepInv, PTL DEF Spec
----
(***************************************************************************)
(* The theorems.                                                           *)
(***************************************************************************)

\* The variables keep their types, and every stored value is stripped and not blank.
THEOREM TypeCorrect == Spec => []TypeOK
<1>1. Inv => TypeOK BY DEF Inv
<1> QED BY <1>1, AlwaysInv, PTL

\* A client_email entry is lowercased unless a PATCH wrote over a change it had not
\* read (_normalize_blacklist_value and the normalisation on a field switch).
THEOREM EmailsAreLowercased == Spec => []EmailsLowercased
<1>1. Inv => EmailsLowercased BY DEF Inv
<1> QED BY <1>1, AlwaysInv, PTL

\* A window that is in order can open at one of its bounds, or at any time if it has
\* none.
LEMMA OrderedCanOpen ==
    ASSUME NEW row \in Row, WindowOk(row)
    PROVE  CanOpen(row)
<1>1. PICK now \in Times : TRUE BY TimesAssumption
<1>2. /\ row.active_from \in Times \cup {NoBound} /\ row.active_until \in Times \cup {NoBound}
      /\ Times \subseteq Nat \ {0} /\ NoBound = 0
  BY TimesAssumption DEF Row, NoBound
<1>3. CASE row.active_from # NoBound
  <2>1. row.active_from \in Times /\ row.active_from \in Nat BY <1>2, <1>3
  <2>2. row.active_from <= row.active_from BY <2>1
  <2>3. InWindow(row, row.active_from)
    <3>1. row.active_until = NoBound \/ row.active_until >= row.active_from
      <4>1. CASE row.active_until = NoBound BY <4>1
      <4>2. CASE row.active_until # NoBound
        <5>1. row.active_until \in Nat /\ row.active_from <= row.active_until
          BY <1>2, <1>3, <4>2 DEF WindowOk
        <5> QED BY <2>1, <5>1
      <4> QED BY <4>1, <4>2
    <3> QED BY <2>2, <3>1 DEF InWindow
  <2> QED BY <2>1, <2>3 DEF CanOpen
<1>4. CASE row.active_from = NoBound /\ row.active_until # NoBound
  <2>1. row.active_until \in Times /\ row.active_until \in Nat BY <1>2, <1>4
  <2>2. row.active_until >= row.active_until BY <2>1
  <2>3. InWindow(row, row.active_until) BY <2>2, <1>4 DEF InWindow
  <2> QED BY <2>1, <2>3 DEF CanOpen
<1>5. CASE row.active_from = NoBound /\ row.active_until = NoBound
  <2>1. InWindow(row, now) BY <1>5 DEF InWindow
  <2> QED BY <1>1, <2>1 DEF CanOpen
<1> QED BY <1>3, <1>4, <1>5

\* Every entry can take effect at some time unless a PATCH wrote over a change it had
\* not read (_validate_active_window against the entry that was read).
THEOREM WindowsOpen == Spec => []WindowsCanOpen
<1>1. Inv => WindowsCanOpen
  BY OrderedCanOpen DEF Inv, TypeOK, WindowsOrdered, WindowsCanOpen
<1> QED BY <1>1, AlwaysInv, PTL

\* While request q is in its slot, only its own write and its loss empty the slot.
LEMMA SlotEmptied ==
    ASSUME Inv, [Next]_vars, NEW p \in Patches, NEW q \in patch[p], patch'[p] = {}
    PROVE  WritePatch(p) \/ UNCHANGED <<rows, raced>>
<1>1. patch \in [Patches -> SUBSET Pending] BY DEF Inv, TypeOK
<1>2. ASSUME NEW i \in Ids, Delete(i) PROVE FALSE BY <1>2 DEF Delete
<1>3. ASSUME NEW i \in Ids, NEW row \in Row, Create(i, row) PROVE FALSE BY <1>3 DEF Create
<1>4. ASSUME NEW o \in Patches, NEW i \in Ids, NEW b \in Bodies, ReadPatch(o, i, b) PROVE FALSE
  BY <1>1, <1>4 DEF ReadPatch
<1>5. ASSUME NEW o \in Patches, WritePatch(o) PROVE o = p
  <2>1. PICK r \in patch[o] : patch' = AfterWrite(o, r.id) BY <1>5 DEF WritePatch
  <2> QED BY <2>1 DEF AfterWrite
<1>6. ASSUME NEW o \in Patches, LosePatch(o) PROVE UNCHANGED <<rows, raced>> BY <1>6 DEF LosePatch
<1>7. CASE UNCHANGED vars BY <1>7 DEF vars
<1> QED BY <1>2, <1>3, <1>4, <1>5, <1>6, <1>7 DEF Next

\* Whatever runs at the same time, a PATCH writes only the columns it was sent and the
\* value, of its own entry, and brings nothing back (update_entry's WHERE id).
THEOREM OnlySentIsWritten == Spec => OnlySentWritten
<1>1. ASSUME Inv, [Next]_vars, NEW p \in Patches, NEW q \in patch[p], patch'[p] = {}
      PROVE  /\ Changed(q) \subseteq q.sent \cup {"value"}
             /\ DOMAIN rows' \subseteq Live
             /\ \A i \in Live \ {q.id} : i \in DOMAIN rows' => rows'[i] = rows[i]
  <2>1. CASE UNCHANGED <<rows, raced>> BY <2>1 DEF Changed, Live
  <2>2. CASE WritePatch(p)
    <3>1. /\ DOMAIN rows' = Live
          /\ q.id \in Live => rows'[q.id] = Merged(rows[q.id], q.updates)
          /\ \A j \in Live \ {q.id} : rows'[j] = rows[j]
      BY <2>2, <1>1, WriteEffect
    <3>2. q.updates.sent \subseteq q.sent \cup {"value"} BY <1>1 DEF Inv, TypeOK
    <3>3. Changed(q) \subseteq q.updates.sent BY <3>1 DEF Changed, Merged
    <3> QED BY <3>1, <3>2, <3>3
  <2> QED BY <2>1, <2>2, <1>1, SlotEmptied
<1>2. Inv /\ [Next]_vars =>
        [\A p \in Patches : \A q \in patch[p] :
           patch'[p] = {} =>
             /\ Changed(q) \subseteq q.sent \cup {"value"}
             /\ DOMAIN rows' \subseteq Live
             /\ \A i \in Live \ {q.id} : i \in DOMAIN rows' => rows'[i] = rows[i]]_vars
  BY <1>1
<1> QED BY <1>2, AlwaysInv, PTL DEF Spec, OnlySentWritten

\* A PATCH that writes the entry as it read it, with no race on the entry before,
\* changes only what the client meant to (update_blacklist_entry).
THEOREM OmittedIsUntouched == Spec => OmittedUntouched
<1>1. ASSUME Inv, [Next]_vars, NEW p \in Patches, NEW q \in patch[p], patch'[p] = {},
             q.fresh, q.id \notin raced
      PROVE  Changed(q) \subseteq Meant(q)
  <2>1. CASE UNCHANGED <<rows, raced>> BY <2>1 DEF Changed, Live
  <2>2. CASE WritePatch(p)
    <3> SUFFICES ASSUME NEW c \in Changed(q), c \notin Meant(q) PROVE FALSE
      OBVIOUS
    <3>1. /\ q.id \in Live /\ c \in Columns
          /\ rows'[q.id] = Merged(rows[q.id], q.updates)
          /\ rows'[q.id][c] # rows[q.id][c]
      BY <2>2, <1>1, WriteEffect DEF Changed
    <3>2. c \in q.updates.sent BY <3>1 DEF Merged
    <3>3. c = "value" BY <3>2, <1>1 DEF Inv, TypeOK, Meant
    <3>4. q.updates.row.value = rows[q.id].value
      BY <3>1, <3>2, <3>3, <1>1 DEF Inv, StillSame
    <3> QED BY <3>1, <3>2, <3>3, <3>4 DEF Merged, Columns
  <2> QED BY <2>1, <2>2, <1>1, SlotEmptied
<1>2. Inv /\ [Next]_vars =>
        [\A p \in Patches : \A q \in patch[p] :
           patch'[p] = {} /\ q.fresh /\ q.id \notin raced => Changed(q) \subseteq Meant(q)]_vars
  BY <1>1
<1> QED BY <1>2, AlwaysInv, PTL DEF Spec, OmittedUntouched
----
(***************************************************************************)
(* One PATCH at a time.  What the violated runs show needs two of them; an *)
(* entry created or deleted beside a PATCH does no harm.                   *)
(***************************************************************************)

OnePatch == \A p, o \in Patches : p = o

\* No PATCH has lost what it read, and none ever wrote over what it had not read.
Undisturbed == raced = {} /\ \A p \in Patches : \A q \in patch[p] : q.fresh

LEMMA UndisturbedStep ==
    ASSUME OnePatch, Inv, Undisturbed, [Next]_vars
    PROVE  Undisturbed'
<1>1. ASSUME NEW i \in Ids, Delete(i) PROVE Undisturbed' BY <1>1 DEF Delete, Undisturbed
<1>2. ASSUME NEW i \in Ids, NEW row \in Row, Create(i, row) PROVE Undisturbed'
  BY <1>2 DEF Create, Undisturbed
<1>3. ASSUME NEW p \in Patches, NEW i \in Ids, NEW b \in Bodies, ReadPatch(p, i, b)
      PROVE  Undisturbed'
  <2> DEFINE new == [id |-> i, sent |-> b.sent, updates |-> Updates(rows[i], b), fresh |-> TRUE]
  <2>1. patch' = [patch EXCEPT ![p] = {new}] /\ raced' = raced /\ new.fresh
    BY <1>3 DEF ReadPatch
  <2> HIDE DEF new
  <2> QED BY <2>1 DEF Undisturbed, Inv, TypeOK
<1>4. ASSUME NEW p \in Patches, WritePatch(p) PROVE Undisturbed'
  <2>1. PICK q \in patch[p] : TRUE BY <1>4 DEF WritePatch
  <2>2. patch' = AfterWrite(p, q.id) /\ raced' = IF q.fresh THEN raced ELSE raced \cup {q.id}
    BY <1>4, WriteEffect
  <2>3. \A o \in Patches : patch'[o] = {} BY <2>2 DEF OnePatch, AfterWrite
  <2> QED BY <2>2, <2>3 DEF Undisturbed
<1>5. ASSUME NEW p \in Patches, LosePatch(p) PROVE Undisturbed'
  BY <1>5 DEF LosePatch, Undisturbed, Inv, TypeOK
<1>6. CASE UNCHANGED vars BY <1>6 DEF vars, Undisturbed
<1> QED BY <1>1, <1>2, <1>3, <1>4, <1>5, <1>6 DEF Next

LEMMA AlwaysUndisturbed ==
    ASSUME OnePatch
    PROVE  Spec => [](Inv /\ Undisturbed)
<1>1. Init => Undisturbed BY DEF Init, Undisturbed
<1>2. Inv /\ Undisturbed /\ [Next]_vars => Inv' /\ Undisturbed'
  BY StepInv, UndisturbedStep
<1> QED BY <1>1, <1>2, InitInv, PTL DEF Spec

\* If PATCHes do not overlap, invalid_active_window keeps every window of the table in
\* order, whatever is created and deleted beside them.
THEOREM OnePatchKeepsWindows ==
    ASSUME OnePatch
    PROVE  Spec => []EveryWindowCanOpen
<1>1. Inv /\ Undisturbed => EveryWindowCanOpen
  BY OrderedCanOpen DEF Inv, TypeOK, WindowsOrdered, Undisturbed, EveryWindowCanOpen
<1> QED BY <1>1, AlwaysUndisturbed, PTL

\* And every client_email entry is stored as event-booking compares it.
THEOREM OnePatchKeepsEmails ==
    ASSUME OnePatch
    PROVE  Spec => [](\A i \in Live : Lowercased(rows[i]))
<1>1. Inv /\ Undisturbed => \A i \in Live : Lowercased(rows[i])
  BY DEF Inv, EmailsLowercased, Undisturbed
<1> QED BY <1>1, AlwaysUndisturbed, PTL

\* And the value that update_blacklist_entry writes back unasked is the stored one, so
\* that omitted fields are left untouched as the route's docstring has it.
THEOREM OnePatchLeavesOmitted ==
    ASSUME OnePatch
    PROVE  Spec => EveryOmittedUntouched
<1>1. ASSUME Undisturbed,
             [\A p \in Patches : \A q \in patch[p] :
                patch'[p] = {} /\ q.fresh /\ q.id \notin raced => Changed(q) \subseteq Meant(q)]_vars
      PROVE  [\A p \in Patches : \A q \in patch[p] :
                patch'[p] = {} => Changed(q) \subseteq Meant(q)]_vars
  BY <1>1 DEF Undisturbed
<1> QED
  BY <1>1, AlwaysUndisturbed, OmittedIsUntouched, PTL DEF OmittedUntouched, EveryOmittedUntouched
====
