---- MODULE Listings_proofs ----
(***************************************************************************)
(* Proofs about Listings, for any rows, any page size and any changes.     *)
(* The argument counts: the rank of a row is the number of rows ahead of   *)
(* it, a page holds the ranks from its offset on, and as long as nothing   *)
(* overtakes a row its rank moves one way only.                            *)
(***************************************************************************)
EXTENDS Listings, FiniteSetTheorems, TLAPS

\* The row of the result that shows row i, those ahead of it, and how many they are.
ItemOf(i) == [id |-> i, n |-> 1]
AllItems == {ItemOf(i) : i \in Ids}
Before(i) == {x \in Items : Ahead(x.id, i)}
Rank(i) == Cardinality(Before(i))

\* The rows to which ORDER BY gives a place of their own, and those that
\* WalkShowsWhatStays is about.
Placed == Selected \ (IF list = "bookings" THEN Twins ELSE {})
Steady == stayed \ (IF list = "bookings" THEN tied ELSE {})

\* A row nothing left ahead of and that has not been shown is still to come; one
\* nothing came ahead of has been passed once it was shown.
WalkInv ==
    \A i \in Steady :
        /\ i \notin overtook.lost /\ shown[i] = 0
             => walk.phase # "done" /\ walk.offset <= Rank(i)
        /\ i \notin overtook.got
             => shown[i] <= 1 /\ (shown[i] = 1 => Rank(i) < walk.offset)

\* The history is about rows of the list.
HistoryInv == stayed \subseteq Selected /\ Twins \subseteq tied

\* A total that has been read is the total as long as nothing has changed.
TotalInv ==
    /\ walk.phase = "counted" => list = "blacklist"
    /\ walk.phase = "counted" /\ ~walk.torn => walk.total = Total

Inv == TypeOK /\ HistoryInv /\ WalkInv /\ TotalInv /\ TotalFits
----
(***************************************************************************)
(* The rows of a table, and what orders them.                              *)
(***************************************************************************)

LEMMA RowTypes ==
    ASSUME TypeOK, NEW i \in Ids
    PROVE  i \in Nat /\ rows[i].key \in Int /\ rows[i].hits \in Nat
<1>1. rows[i] \in Row \cup {NoRow} BY DEF TypeOK
<1>2. CASE rows[i] = NoRow BY <1>2, IdsAssumption DEF NoRow
<1>3. CASE rows[i] \in Row BY <1>3, IdsAssumption, LimitsAssumption DEF Row, Times
<1> QED BY <1>1, <1>2, <1>3

\* Any set of rows can be counted, and is not larger than a set it is part of.
LEMMA Counting ==
    /\ \A S \in SUBSET AllItems : IsFiniteSet(S) /\ Cardinality(S) \in Nat
    /\ \A S \in SUBSET AllItems : \A T \in SUBSET S :
         Cardinality(T) <= Cardinality(S) /\ (Cardinality(T) = Cardinality(S) => S = T)
<1> DEFINE f == [i \in Ids |-> ItemOf(i)]
<1>1. f \in Surjection(Ids, AllItems)
  <2>1. f \in [Ids -> AllItems] BY DEF AllItems
  <2>2. \A x \in AllItems : \E i \in Ids : f[i] = x BY DEF AllItems
  <2> QED BY <2>1, <2>2 DEF Surjection
<1>2. IsFiniteSet(AllItems) BY <1>1, IdsAssumption, FS_Surjection
<1>3. ASSUME NEW S \in SUBSET AllItems PROVE IsFiniteSet(S) /\ Cardinality(S) \in Nat
  BY <1>2, FS_Subset, FS_CardinalityType
<1>4. ASSUME NEW S \in SUBSET AllItems, NEW T \in SUBSET S
      PROVE  Cardinality(T) <= Cardinality(S) /\ (Cardinality(T) = Cardinality(S) => S = T)
  BY <1>3, FS_Subset
<1> QED BY <1>3, <1>4

\* The result has as many rows as pass the filters.
LEMMA ItemsFinite ==
    /\ Items \subseteq AllItems /\ Selected \subseteq Ids
    /\ Cardinality(Items) = Cardinality(Selected) /\ Cardinality(Items) \in Nat
<1>1. Selected \subseteq Ids /\ IsFiniteSet(Selected)
  BY IdsAssumption, FS_Subset DEF Selected
<1> DEFINE f == [i \in Selected |-> ItemOf(i)]
<1>2. f \in Bijection(Selected, Items)
  <2>1. f \in [Selected -> Items] BY DEF Items, ItemOf
  <2>2. \A i, j \in Selected : f[i] = f[j] => i = j
    <3> SUFFICES ASSUME NEW i \in Selected, NEW j \in Selected, f[i] = f[j] PROVE i = j
      OBVIOUS
    <3>1. ItemOf(i).id = ItemOf(j).id OBVIOUS
    <3> QED BY <3>1 DEF ItemOf
  <2>3. \A x \in Items : \E i \in Selected : f[i] = x BY DEF Items, ItemOf
  <2> QED BY <2>1, <2>2, <2>3 DEF Bijection, Injection, Surjection, IsInjective
<1>3. ExistsBijection(Selected, Items) BY <1>2 DEF ExistsBijection
<1>4. Cardinality(Items) = Cardinality(Selected) BY <1>1, <1>3, FS_Bijection
<1>5. Items \subseteq AllItems BY <1>1 DEF Items, AllItems, ItemOf
<1> QED BY <1>1, <1>4, <1>5, Counting

LEMMA ItemsAreRows ==
    /\ \A x \in Items : x.id \in Selected /\ x = ItemOf(x.id)
    /\ \A i \in Selected : ItemOf(i) \in Items /\ ItemOf(i).id = i
BY DEF Items, ItemOf

\* A steady row has kept its place so far, so it has one now.
LEMMA SteadyPlaced ==
    ASSUME HistoryInv
    PROVE  Steady \subseteq Placed
BY DEF HistoryInv, Steady, Placed

\* A placed row has its place: every other row is ahead of it or behind it, as the
\* documented order and the query have it.
LEMMA Place ==
    ASSUME TypeOK, NEW i \in Placed
    PROVE  /\ i \in Selected /\ ItemOf(i) \in Items /\ ItemOf(i) \notin Before(i)
           /\ \A x \in Items : x # ItemOf(i) =>
                /\ Precedes(x, ItemOf(i)) <=> x \in Before(i)
                /\ Precedes(ItemOf(i), x) <=> x \notin Before(i)
<1>1. i \in Selected BY DEF Placed
<1>2. i \in Ids /\ i \in Nat /\ rows[i].key \in Int BY <1>1, RowTypes DEF Selected
<1>3. ItemOf(i) \in Items /\ ItemOf(i).id = i BY <1>1, ItemsAreRows
<1>4. ItemOf(i) \notin Before(i) BY <1>2, <1>3 DEF Before, Ahead
<1>5. ASSUME NEW x \in Items, x # ItemOf(i)
      PROVE  /\ Precedes(x, ItemOf(i)) <=> x \in Before(i)
             /\ Precedes(ItemOf(i), x) <=> x \notin Before(i)
  <2>1. x.id \in Selected /\ x.id # i BY <1>5, ItemsAreRows
  <2>2. x.id \in Nat /\ rows[x.id].key \in Int BY <2>1, RowTypes DEF Selected
  <2>3. list = "bookings" => rows[x.id].key # rows[i].key
    BY <1>1, <2>1 DEF Placed, Twins
  <2>4. x \in Before(i) <=>
          \/ list = "bounced" /\ rows[x.id].key < rows[i].key
          \/ list # "bounced" /\ rows[x.id].key > rows[i].key
          \/ rows[x.id].key = rows[i].key /\ x.id < i
    BY <1>1, <2>1 DEF Before, Ahead
  <2>5. Precedes(x, ItemOf(i)) <=>
          \/ list = "bounced" /\ rows[x.id].key < rows[i].key
          \/ list # "bounced" /\ rows[x.id].key > rows[i].key
          \/ list # "bookings" /\ rows[x.id].key = rows[i].key /\ x.id < i
    BY <1>3 DEF Precedes
  <2>6. Precedes(ItemOf(i), x) <=>
          \/ list = "bounced" /\ rows[i].key < rows[x.id].key
          \/ list # "bounced" /\ rows[i].key > rows[x.id].key
          \/ list # "bookings" /\ rows[i].key = rows[x.id].key /\ i < x.id
    BY <1>3 DEF Precedes
  <2> QED BY <1>2, <2>1, <2>2, <2>3, <2>4, <2>5, <2>6
<1> QED BY <1>1, <1>3, <1>4, <1>5

\* A row is in a beginning of the list when the beginning is longer than its rank.
LEMMA BeginningRank ==
    ASSUME TypeOK, NEW i \in Placed, NEW B, Beginning(B)
    PROVE  /\ Rank(i) \in Nat /\ Rank(i) < Cardinality(Items)
           /\ ItemOf(i) \in B <=> Rank(i) < Cardinality(B)
<1>1. Before(i) \subseteq Items /\ B \subseteq Items /\ Items \subseteq AllItems
  BY ItemsFinite DEF Before, Beginning
<1>2. Before(i) \cup {ItemOf(i)} \subseteq Items BY <1>1, Place
<1>3. /\ Rank(i) \in Nat /\ Cardinality(B) \in Nat
      /\ Cardinality(Before(i) \cup {ItemOf(i)}) = Rank(i) + 1
  BY <1>1, Counting, Place, FS_AddElement DEF Rank
<1>4. Rank(i) < Cardinality(Items)
  <2>1. Rank(i) + 1 <= Cardinality(Items) BY <1>1, <1>2, <1>3, Counting
  <2> QED BY <1>3, <2>1, ItemsFinite
<1>5. CASE ItemOf(i) \in B
  <2>1. Before(i) \subseteq B
    BY <1>1, <1>5, Place DEF Beginning
  <2>2. Rank(i) + 1 <= Cardinality(B) BY <1>1, <1>3, <1>5, <2>1, Counting
  <2> QED BY <1>3, <1>4, <1>5, <2>2
<1>6. CASE ItemOf(i) \notin B
  <2>1. B \subseteq Before(i)
    BY <1>1, <1>6, Place DEF Beginning
  <2>2. Cardinality(B) <= Rank(i) BY <1>1, <2>1, Counting DEF Rank
  <2> QED BY <1>3, <1>4, <1>6, <2>2
<1> QED BY <1>5, <1>6

\* A page holds the ranks from its offset on, as many as it may, and is full unless it
\* is the last.
LEMMA PageRank ==
    ASSUME TypeOK, NEW offset \in Nat, NEW P \in Pages(offset)
    PROVE  /\ Cardinality(P) \in 0 .. Limit
           /\ Cardinality(P) = Lesser(offset + Limit, Cardinality(Items))
                                 - Lesser(offset, Cardinality(Items))
           /\ \A i \in Placed :
                /\ ItemOf(i) \in P <=> offset <= Rank(i) /\ Rank(i) < offset + Limit
                /\ Cardinality(P) < Limit => Rank(i) < offset + Limit
<1> DEFINE N == Cardinality(Items)
<1>1. PICK B \in SUBSET (Items \ P) :
         /\ Beginning(B) /\ Cardinality(B) = Lesser(offset, N)
         /\ Beginning(B \cup P) /\ Cardinality(B \cup P) = Lesser(offset + Limit, N)
  BY DEF Pages
<1>2. P \subseteq Items BY DEF Pages
<1>3. /\ N \in Nat /\ Cardinality(P) \in Nat /\ Cardinality(B) \in Nat
      /\ IsFiniteSet(B) /\ IsFiniteSet(P)
  BY <1>1, <1>2, ItemsFinite, Counting
<1>4. Cardinality(B \cup P) = Cardinality(B) + Cardinality(P)
  <2>1. B \cap P = {} BY <1>1
  <2>2. Cardinality(B \cap P) = 0 BY <2>1, FS_EmptySet
  <2>3. Cardinality(B \cup P) = Cardinality(B) + Cardinality(P) - Cardinality(B \cap P)
    BY <1>3, FS_Union, Zenon
  <2> QED BY <1>3, <2>2, <2>3
<1>5. Cardinality(P) = Lesser(offset + Limit, N) - Lesser(offset, N)
  BY <1>1, <1>3, <1>4, LimitsAssumption DEF Lesser
<1>6. Cardinality(P) \in 0 .. Limit BY <1>3, <1>5, LimitsAssumption DEF Lesser
<1>7. ASSUME NEW i \in Placed
      PROVE  /\ ItemOf(i) \in P <=> offset <= Rank(i) /\ Rank(i) < offset + Limit
             /\ Cardinality(P) < Limit => Rank(i) < offset + Limit
  <2>1. Rank(i) \in Nat /\ Rank(i) < N BY <1>1, BeginningRank
  <2>2. ItemOf(i) \in B <=> Rank(i) < Lesser(offset, N) BY <1>1, BeginningRank
  <2>3. ItemOf(i) \in B \cup P <=> Rank(i) < Lesser(offset + Limit, N)
    BY <1>1, BeginningRank
  <2>4. ItemOf(i) \in P <=> ItemOf(i) \in B \cup P /\ ItemOf(i) \notin B BY <1>1
  <2> QED BY <1>3, <1>5, <2>1, <2>2, <2>3, <2>4, LimitsAssumption DEF Lesser
<1> QED BY <1>5, <1>6, <1>7

\* A page shows a row once or not at all.
LEMMA ShownOnce ==
    ASSUME NEW P \in SUBSET Items, NEW i \in Ids
    PROVE  Cardinality({x \in P : x.id = i}) = IF ItemOf(i) \in P THEN 1 ELSE 0
<1>1. \A x \in P : x.id = i <=> x = ItemOf(i)
  <2>1. ItemOf(i).id = i BY DEF ItemOf
  <2> QED BY <2>1, ItemsAreRows
<1>2. CASE ItemOf(i) \in P
  <2>1. {x \in P : x.id = i} = {ItemOf(i)} BY <1>1, <1>2
  <2> QED BY <1>2, <2>1, FS_Singleton
<1>3. CASE ItemOf(i) \notin P
  <2>1. {x \in P : x.id = i} = {} BY <1>1, <1>3
  <2> QED BY <1>3, <2>1, FS_EmptySet
<1> QED BY <1>2, <1>3
----
(***************************************************************************)
(* The steps.                                                              *)
(***************************************************************************)

LEMMA InitInv ==
    ASSUME Init
    PROVE  Inv
<1>1. TypeOK
  <2>1. Selected \subseteq Ids /\ Twins \subseteq Ids BY DEF Selected, Twins
  <2>2. walk \in Walk /\ walk.size <= Limit
    BY LimitsAssumption DEF Init, FirstPage, Walk
  <2>3. shown \in [Ids -> Nat] /\ overtook \in [lost : SUBSET Ids, got : SUBSET Ids]
    BY DEF Init
  <2>4. clock \in Times /\ changes \in 0 .. MaxChanges
    BY LimitsAssumption DEF Init, Times
  <2> QED BY <2>1, <2>2, <2>3, <2>4 DEF Init, TypeOK
<1>2. HistoryInv BY DEF Init, HistoryInv
<1>3. WalkInv
  <2> SUFFICES ASSUME NEW i \in Steady
               PROVE  /\ shown[i] = 0 /\ walk.phase # "done"
                      /\ walk.offset = 0 /\ Rank(i) \in Nat
    BY DEF WalkInv
  <2>1. i \in Ids BY <1>2, ItemsFinite DEF Steady, HistoryInv
  <2>2. Before(i) \subseteq AllItems BY ItemsFinite DEF Before
  <2> QED BY <2>1, <2>2, Counting DEF Init, FirstPage, Rank
<1>4. TotalInv /\ TotalFits BY DEF Init, FirstPage, TotalInv, TotalFits
<1> QED BY <1>1, <1>2, <1>3, <1>4 DEF Inv

LEMMA CountStep ==
    ASSUME Inv, Count
    PROVE  Inv'
<1> USE DEF Inv
<1>1. Selected' = Selected /\ Twins' = Twins /\ Items' = Items
  BY DEF Count, Selected, Twins, Items
<1>2. /\ walk' = [walk EXCEPT !.phase = "counted", !.total = Total, !.torn = FALSE]
      /\ Total \in Nat /\ walk \in Walk
  BY ItemsFinite DEF Count, Total, TypeOK
<1>3. /\ walk' \in Walk /\ walk'.phase = "counted" /\ walk'.total = Total
      /\ walk'.offset = walk.offset /\ walk'.size = walk.size
  BY <1>2 DEF Walk
<1>4. TypeOK' BY <1>3 DEF TypeOK, Count
<1>5. HistoryInv' BY <1>1 DEF HistoryInv, Count
<1>6. WalkInv'
  <2>1. Steady' = Steady /\ \A i \in Ids : Rank(i)' = Rank(i)
    BY <1>1 DEF Steady, Rank, Before, Ahead, Count
  <2>2. Steady \subseteq Ids BY DEF Steady, TypeOK
  <2>3. walk.phase # "done" BY DEF Count
  <2> QED BY <1>3, <2>1, <2>2 DEF WalkInv, Count
<1>7. TotalInv' BY <1>1, <1>3 DEF TotalInv, Total, Count
<1>8. TotalFits' BY <1>3 DEF TotalFits
<1> QED BY <1>4, <1>5, <1>6, <1>7, <1>8

LEMMA ReadPageStep ==
    ASSUME Inv, ReadPage
    PROVE  Inv'
<1> USE DEF Inv
<1>1. PICK P \in Pages(walk.offset) :
         /\ shown' = [i \in Ids |-> shown[i] + Cardinality({x \in P : x.id = i})]
         /\ walk' = [walk EXCEPT !.phase = IF Cardinality(P) < Limit THEN "done" ELSE "asking",
                                 !.at = walk.offset, !.offset = @ + Limit,
                                 !.size = Cardinality(P)]
  BY DEF ReadPage
<1>2. walk \in Walk /\ walk.offset \in Nat /\ P \subseteq Items
  BY DEF TypeOK, Walk, Pages
<1>3. Cardinality(P) \in 0 .. Limit BY <1>2, PageRank
<1>4. /\ walk' \in Walk /\ walk'.size = Cardinality(P) /\ walk'.at = walk.offset
      /\ walk'.offset = walk.offset + Limit /\ walk'.total = walk.total
      /\ walk'.torn = walk.torn /\ walk'.phase # "counted"
      /\ walk'.phase = "done" => Cardinality(P) < Limit
  <2> DEFINE phase == IF Cardinality(P) < Limit THEN "done" ELSE "asking"
  <2>1. /\ phase \in {"asking", "done"} /\ Cardinality(P) \in Nat
        /\ walk.offset + Limit \in Nat
        /\ phase = "done" => Cardinality(P) < Limit
    BY <1>2, <1>3, LimitsAssumption
  <2>2. walk' = [walk EXCEPT !.phase = phase, !.at = walk.offset,
                             !.offset = @ + Limit, !.size = Cardinality(P)]
    BY <1>1
  <2> HIDE DEF phase
  <2> QED BY <1>2, <2>1, <2>2 DEF Walk
<1>5. \A i \in Ids : shown'[i] = shown[i] + IF ItemOf(i) \in P THEN 1 ELSE 0
  BY <1>1, <1>2, ShownOnce
<1>6. Selected' = Selected /\ Twins' = Twins /\ Items' = Items
  BY DEF ReadPage, Selected, Twins, Items
<1>7. TypeOK'
  <2>1. shown' \in [Ids -> Nat] BY <1>1, <1>5 DEF TypeOK
  <2> QED BY <1>3, <1>4, <2>1, LimitsAssumption DEF TypeOK, ReadPage
<1>8. HistoryInv' BY <1>6 DEF HistoryInv, ReadPage
<1>9. WalkInv'
  <2>1. Steady' = Steady /\ \A i \in Ids : Rank(i)' = Rank(i)
    BY <1>6 DEF Steady, Rank, Before, Ahead, ReadPage
  <2> SUFFICES ASSUME NEW i \in Steady
               PROVE  /\ i \notin overtook.lost /\ shown'[i] = 0
                           => walk'.phase # "done" /\ walk'.offset <= Rank(i)
                      /\ i \notin overtook.got
                           => shown'[i] <= 1 /\ (shown'[i] = 1 => Rank(i) < walk'.offset)
    <3>1. Steady \subseteq Ids BY DEF Steady, TypeOK
    <3> QED BY <2>1, <3>1 DEF WalkInv, ReadPage
  <2>2. i \in Ids /\ shown[i] \in Nat BY DEF Steady, TypeOK
  <2>3. /\ ItemOf(i) \in P <=> walk.offset <= Rank(i) /\ Rank(i) < walk.offset + Limit
        /\ Cardinality(P) < Limit => Rank(i) < walk.offset + Limit
    BY <1>2, PageRank, SteadyPlaced
  <2>4. Rank(i) \in Nat
    BY <2>2, Counting, ItemsFinite DEF Rank, Before
  <2>5. /\ i \notin overtook.lost /\ shown[i] = 0 => walk.offset <= Rank(i)
        /\ i \notin overtook.got => shown[i] <= 1 /\ (shown[i] = 1 => Rank(i) < walk.offset)
    BY DEF WalkInv
  <2> QED BY <1>2, <1>4, <1>5, <2>2, <2>3, <2>4, <2>5, LimitsAssumption
<1>10. TotalInv' BY <1>4 DEF TotalInv
<1>11. TotalFits'
  <2> SUFFICES ASSUME list = "blacklist", ~walk.torn
               PROVE  Cardinality(P) = Lesser(Limit, IF walk.total > walk.offset
                                                       THEN walk.total - walk.offset ELSE 0)
    BY <1>4 DEF TotalFits, ReadPage
  <2>1. walk.phase = "counted" BY DEF ReadPage
  <2>2. walk.total = Cardinality(Items) BY <2>1, ItemsFinite DEF TotalInv, Total
  <2>3. Cardinality(P) = Lesser(walk.offset + Limit, walk.total) - Lesser(walk.offset, walk.total)
    BY <1>2, <2>2, PageRank
  <2> QED BY <1>2, <2>2, <2>3, ItemsFinite, LimitsAssumption DEF Lesser
<1> QED BY <1>7, <1>8, <1>9, <1>10, <1>11

LEMMA AgainStep ==
    ASSUME Inv, Again
    PROVE  Inv'
<1> USE DEF Inv
<1>1. Selected' = Selected /\ Twins' = Twins /\ Items' = Items
  BY DEF Again, Selected, Twins, Items
<1>2. walk' \in Walk /\ walk'.size <= Limit
  BY LimitsAssumption DEF Again, FirstPage, Walk
<1>3. TypeOK'
  <2>1. Selected \subseteq Ids /\ Twins \subseteq Ids BY DEF Selected, Twins
  <2>2. shown' \in [Ids -> Nat] /\ overtook' \in [lost : SUBSET Ids, got : SUBSET Ids]
    BY DEF Again
  <2> QED BY <1>2, <2>1, <2>2 DEF TypeOK, Again
<1>4. HistoryInv' BY <1>1 DEF HistoryInv, Again
<1>5. WalkInv'
  <2> SUFFICES ASSUME NEW i \in Steady'
               PROVE  /\ shown'[i] = 0 /\ walk'.phase # "done"
                      /\ walk'.offset = 0 /\ Rank(i)' \in Nat
    BY DEF WalkInv
  <2>1. i \in Ids BY <1>3 DEF Steady, TypeOK
  <2>2. Before(i)' \subseteq AllItems BY <1>1, ItemsFinite DEF Before
  <2> QED BY <2>1, <2>2, Counting DEF Again, FirstPage, Rank
<1>6. TotalInv' /\ TotalFits' BY DEF Again, FirstPage, TotalInv, TotalFits
<1> QED BY <1>3, <1>4, <1>5, <1>6

\* What a step that changes the rows or the time does to the history: a row that is
\* steady afterwards was so before, and unless the history says otherwise the rows ahead
\* of it have only become more, or only fewer.
LEMMA RememberedRanks ==
    ASSUME Inv, Remember, list' = list
    PROVE  /\ HistoryInv' /\ Steady' \subseteq Steady
           /\ \A i \in Steady' :
                /\ Rank(i) \in Nat /\ Rank(i)' \in Nat
                /\ i \notin overtook'.lost
                     => i \notin overtook.lost /\ Rank(i) <= Rank(i)'
                /\ i \notin overtook'.got
                     => i \notin overtook.got /\ Rank(i)' <= Rank(i)
<1>1. HistoryInv' BY DEF Remember, HistoryInv, Inv
<1>2. Steady' \subseteq Steady BY DEF Remember, Steady
<1>3. ASSUME NEW i \in Steady'
      PROVE  /\ Rank(i) \in Nat /\ Rank(i)' \in Nat
             /\ i \notin overtook'.lost
                  => i \notin overtook.lost /\ Rank(i) <= Rank(i)'
             /\ i \notin overtook'.got
                  => i \notin overtook.got /\ Rank(i)' <= Rank(i)
  <2>1. i \in Ids BY <1>2 DEF Steady, Inv, TypeOK
  <2>2. Before(i) = {ItemOf(k) : k \in {j \in Ids : Ahead(j, i)}}
    <3>1. \A x : x \in Before(i) <=> \E k \in Ids : Ahead(k, i) /\ x = ItemOf(k)
      BY DEF Before, Items, ItemOf, Ahead, Selected
    <3> QED BY <3>1
  <2>3. Before(i)' = {ItemOf(k) : k \in {j \in Ids : Ahead(j, i)'}}
    <3>1. \A x : x \in Before(i)' <=> \E k \in Ids : Ahead(k, i)' /\ x = ItemOf(k)
      BY DEF Before, Items, ItemOf, Ahead, Selected
    <3> QED BY <3>1
  <2>4. Before(i) \in SUBSET AllItems /\ Before(i)' \in SUBSET AllItems
    BY <2>2, <2>3 DEF AllItems
  <2>5. /\ overtook'.lost = overtook.lost \cup {j \in Ids : \E k \in Ids : Ahead(k, j) /\ ~Ahead(k, j)'}
        /\ overtook'.got = overtook.got \cup {j \in Ids : \E k \in Ids : ~Ahead(k, j) /\ Ahead(k, j)'}
    BY DEF Remember
  <2>6. ASSUME i \notin overtook'.lost PROVE Before(i) \subseteq Before(i)'
    <3>1. \A k \in Ids : Ahead(k, i) => Ahead(k, i)' BY <2>1, <2>5, <2>6
    <3> QED BY <2>2, <2>3, <3>1
  <2>7. ASSUME i \notin overtook'.got PROVE Before(i)' \subseteq Before(i)
    <3>1. \A k \in Ids : Ahead(k, i)' => Ahead(k, i) BY <2>1, <2>5, <2>7
    <3> QED BY <2>2, <2>3, <3>1
  <2>8. Rank(i) \in Nat /\ Rank(i)' \in Nat BY <2>4, Counting DEF Rank
  <2>9. i \notin overtook'.lost => Rank(i) <= Rank(i)' BY <2>4, <2>6, Counting DEF Rank
  <2>10. i \notin overtook'.got => Rank(i)' <= Rank(i) BY <2>4, <2>7, Counting DEF Rank
  <2> QED BY <2>5, <2>8, <2>9, <2>10
<1> QED BY <1>1, <1>2, <1>3

\* Such a step keeps the invariant, whatever it does to the rows.
LEMMA RememberStep ==
    ASSUME Inv, Remember, list' = list, shown' = shown,
           rows' \in [Ids -> Row \cup {NoRow}], clock' \in Times, changes' \in 0 .. MaxChanges,
           list # "bounced" => \A i \in Ids : rows'[i].hits < 2 /\ rows'[i].key <= clock'
    PROVE  Inv'
<1>1. walk \in Walk /\ walk' = [walk EXCEPT !.torn = @ \/ walk.phase = "counted"]
  BY DEF Inv, TypeOK, Remember
<1>2. /\ walk' \in Walk /\ walk'.phase = walk.phase /\ walk'.offset = walk.offset
      /\ walk'.size = walk.size /\ walk'.at = walk.at /\ walk'.total = walk.total
      /\ walk'.torn = (walk.torn \/ walk.phase = "counted")
  <2> DEFINE torn == walk.torn \/ walk.phase = "counted"
  <2>1. torn \in BOOLEAN /\ walk' = [walk EXCEPT !.torn = torn] BY <1>1 DEF Walk
  <2> HIDE DEF torn
  <2>2. /\ walk' \in Walk /\ walk'.phase = walk.phase /\ walk'.offset = walk.offset
        /\ walk'.size = walk.size /\ walk'.at = walk.at /\ walk'.total = walk.total
        /\ walk'.torn = torn
    BY <1>1, <2>1 DEF Walk
  <2> QED BY <2>2 DEF torn
<1>3. HistoryInv' BY RememberedRanks
<1>4. TypeOK'
  <2>1. stayed' \subseteq Ids /\ tied' \subseteq Ids
    BY DEF Remember, Twins, Selected, Inv, TypeOK
  <2>2. overtook' \in [lost : SUBSET Ids, got : SUBSET Ids]
    BY DEF Remember, Inv, TypeOK
  <2> QED BY <1>2, <2>1, <2>2 DEF Inv, TypeOK
<1>5. WalkInv'
  <2> SUFFICES ASSUME NEW i \in Steady'
               PROVE  /\ i \notin overtook'.lost /\ shown[i] = 0
                           => walk.phase # "done" /\ walk.offset <= Rank(i)'
                      /\ i \notin overtook'.got
                           => shown[i] <= 1 /\ (shown[i] = 1 => Rank(i)' < walk.offset)
    BY <1>2 DEF WalkInv
  <2>1. i \in Steady BY RememberedRanks
  <2>2. /\ i \notin overtook.lost /\ shown[i] = 0
             => walk.phase # "done" /\ walk.offset <= Rank(i)
        /\ i \notin overtook.got
             => shown[i] <= 1 /\ (shown[i] = 1 => Rank(i) < walk.offset)
    BY <2>1 DEF Inv, WalkInv
  <2>3. walk.offset \in Nat BY <1>1 DEF Walk
  <2> QED BY <2>2, <2>3, RememberedRanks
<1>6. TotalInv' BY <1>2 DEF TotalInv, Inv
<1>7. TotalFits' BY <1>2 DEF TotalFits, Inv
<1> QED BY <1>3, <1>4, <1>5, <1>6, <1>7 DEF Inv

\* A change of one row leaves the table one that RememberStep is about.
LEMMA ChangeStep ==
    ASSUME Inv, NEW i \in Ids, NEW row \in Row \cup {NoRow}, Change(i, row),
           list # "bounced" => row.hits < 2 /\ row.key <= clock
    PROVE  Inv'
<1>1. /\ list' = list /\ shown' = shown /\ clock' = clock /\ Remember
      /\ rows' = [rows EXCEPT ![i] = row] /\ changes < MaxChanges /\ changes' = changes + 1
  BY DEF Change
<1>2. rows \in [Ids -> Row \cup {NoRow}] /\ clock \in Times BY DEF Inv, TypeOK
<1>3. changes' \in 0 .. MaxChanges BY <1>1, LimitsAssumption DEF Inv, TypeOK
<1>4. /\ rows' \in [Ids -> Row \cup {NoRow}]
      /\ \A j \in Ids : rows'[j] = IF j = i THEN row ELSE rows[j]
  BY <1>1, <1>2
<1>5. list # "bounced" => \A j \in Ids : rows'[j].hits < 2 /\ rows'[j].key <= clock'
  BY <1>1, <1>4 DEF Inv, TypeOK
<1> QED BY <1>1, <1>2, <1>3, <1>4, <1>5, RememberStep

LEMMA SeenStep ==
    ASSUME Inv, NEW i \in Ids, Seen(i)
    PROVE  Inv'
<1>1. PICK hits \in 0 .. 1 : Change(i, [key |-> clock, hits |-> hits]) BY DEF Seen
<1>2. clock \in Int /\ [key |-> clock, hits |-> hits] \in Row
  BY LimitsAssumption DEF Inv, TypeOK, Row, Times
<1> QED BY <1>1, <1>2, ChangeStep

LEMMA BounceStep ==
    ASSUME Inv, NEW i \in Ids, Bounce(i)
    PROVE  Inv'
<1>1. PICK row \in Row : Change(i, row) BY DEF Bounce
<1>2. list = "bounced" BY DEF Bounce
<1> QED BY <1>1, <1>2, ChangeStep

LEMMA EditStep ==
    ASSUME Inv, NEW i \in Ids, Edit(i)
    PROVE  Inv'
<1>1. /\ clock \in Times /\ clock \in Int /\ rows[i] \in Row \cup {NoRow}
      /\ list # "bounced" => rows[i].hits < 2 /\ rows[i].key <= clock
  BY LimitsAssumption DEF Inv, TypeOK, Times
<1>2. ASSUME NEW hits \in 0 .. 1, Change(i, [key |-> clock, hits |-> hits]) PROVE Inv'
  <2>1. [key |-> clock, hits |-> hits] \in Row BY <1>1 DEF Row
  <2> QED BY <1>1, <1>2, <2>1, ChangeStep
<1>3. ASSUME rows[i] # NoRow, Change(i, [rows[i] EXCEPT !.hits = 1 - @]) PROVE Inv'
  <2>1. rows[i] \in Row /\ rows[i].hits \in 0 .. 1
    BY <1>1, <1>3 DEF Edit, Row
  <2> DEFINE row == [rows[i] EXCEPT !.hits = 1 - @]
  <2>2. row \in Row /\ row.hits < 2 /\ row.key = rows[i].key BY <2>1 DEF Row
  <2>3. row.hits < 2 /\ (list # "bounced" => row.key <= clock) BY <1>1, <2>2
  <2> HIDE DEF row
  <2> QED BY <1>3, <2>2, <2>3, ChangeStep DEF row
<1>4. ASSUME Change(i, NoRow) PROVE Inv'
  <2>1. NoRow.hits < 2 /\ NoRow.key <= clock
    BY <1>1, LimitsAssumption DEF NoRow, Times
  <2> QED BY <1>4, <2>1, ChangeStep
<1> QED BY <1>2, <1>3, <1>4 DEF Edit

LEMMA TickStep ==
    ASSUME Inv, Tick
    PROVE  Inv'
<1>1. /\ clock' = clock + 1 /\ clock < MaxClock /\ list' = list /\ rows' = rows
      /\ changes' = changes /\ shown' = shown /\ Remember
  BY DEF Tick
<1>2. clock' \in Times /\ clock \in Int BY <1>1, LimitsAssumption DEF Inv, TypeOK, Times
<1>3. list # "bounced" => \A i \in Ids : rows'[i].hits < 2 /\ rows'[i].key <= clock'
  BY <1>1, <1>2, RowTypes DEF Inv, TypeOK
<1> QED BY <1>1, <1>2, <1>3, RememberStep DEF Inv, TypeOK
----
(***************************************************************************)
(* The theorems.                                                           *)
(***************************************************************************)

THEOREM Invariance == Spec => []Inv
<1>1. Init => Inv BY InitInv
<1>2. Inv /\ [Next]_vars => Inv'
  <2> SUFFICES ASSUME Inv, [Next]_vars PROVE Inv'
    OBVIOUS
  <2>1. CASE Count BY <2>1, CountStep
  <2>2. CASE ReadPage BY <2>2, ReadPageStep
  <2>3. CASE Again BY <2>3, AgainStep
  <2>4. CASE Tick BY <2>4, TickStep
  <2>5. ASSUME NEW i \in Ids, Seen(i) \/ Bounce(i) \/ Edit(i) PROVE Inv'
    BY <2>5, SeenStep, BounceStep, EditStep
  <2>6. CASE UNCHANGED vars
    BY <2>6 DEF vars, Inv, TypeOK, HistoryInv, WalkInv, TotalInv, TotalFits, Steady, Rank,
                Before, Items, Selected, Twins, Ahead, Total
  <2> QED BY <2>1, <2>2, <2>3, <2>4, <2>5, <2>6 DEF Next
<1> QED BY <1>1, <1>2, PTL DEF Spec

\* Every variable keeps its type; no row is from the future and no page too long.
THEOREM TypeCorrect == Spec => []TypeOK
<1>1. Inv => TypeOK BY DEF Inv
<1> QED BY <1>1, Invariance, PTL

\* A walk leaves a row that stays in its place out only if a row ahead of it left, and
\* repeats it only if one came: for any table, page size and changes.
THEOREM WalksShowWhatStays == Spec => []WalkShowsWhatStays
<1>1. Inv => WalkShowsWhatStays
  <2> SUFFICES ASSUME Inv, NEW i \in Steady
               PROVE  /\ walk.phase = "done" /\ shown[i] = 0 => i \in overtook.lost
                      /\ shown[i] > 1 => i \in overtook.got
    BY DEF WalkShowsWhatStays, Steady
  <2>1. shown[i] \in Nat BY DEF Inv, TypeOK, Steady
  <2> QED BY <2>1 DEF Inv, WalkInv
<1> QED BY <1>1, Invariance, PTL

\* So a walk shows a row that nothing has overtaken exactly once.
THEOREM QuietWalksAreExact ==
    Spec => [](walk.phase = "done" =>
                 \A i \in Steady \ (overtook.lost \cup overtook.got) : shown[i] = 1)
<1>1. Inv => (walk.phase = "done" =>
                \A i \in Steady \ (overtook.lost \cup overtook.got) : shown[i] = 1)
  BY DEF Inv, TypeOK, Steady, WalkInv
<1> QED BY <1>1, Invariance, PTL

\* Where ORDER BY gives every row a place, a page is determined by the table, and pages
\* that follow each other share no row.  It does in the lists with a tie-break; in
\* GET /bookings (bookings_db.py:79) as long as no two rows were seen at one instant.
THEOREM PagesAreDetermined ==
    Spec => []((list # "bookings" \/ Twins = {}) =>
                 \A offset \in Nat : \A P \in Pages(offset) :
                   /\ \A Q \in Pages(offset) : P = Q
                   /\ \A Q \in Pages(offset + Limit) : P \cap Q = {})
<1>1. ASSUME TypeOK, list # "bookings" \/ Twins = {}, NEW offset \in Nat, NEW P \in Pages(offset)
      PROVE  /\ \A Q \in Pages(offset) : P = Q
             /\ \A Q \in Pages(offset + Limit) : P \cap Q = {}
  <2>1. ASSUME NEW o \in Nat, NEW Q \in Pages(o)
        PROVE  \A x : x \in Q <=> x \in Items /\ o <= Rank(x.id) /\ Rank(x.id) < o + Limit
    <3>1. Q \subseteq Items BY DEF Pages
    <3>2. \A x \in Items : x.id \in Placed /\ x = ItemOf(x.id)
      BY <1>1, ItemsAreRows DEF Placed
    <3>3. \A i \in Placed : ItemOf(i) \in Q <=> o <= Rank(i) /\ Rank(i) < o + Limit
      BY <1>1, PageRank
    <3> QED BY <3>1, <3>2, <3>3
  <2>2. ASSUME NEW Q \in Pages(offset) PROVE P = Q BY <2>1
  <2>3. ASSUME NEW Q \in Pages(offset + Limit) PROVE P \cap Q = {}
    <3>1. offset + Limit \in Nat BY LimitsAssumption
    <3>2. \A x \in Q : offset + Limit <= Rank(x.id) BY <2>1, <3>1
    <3>3. \A x \in P : Rank(x.id) < offset + Limit BY <2>1
    <3>4. \A x \in Items : Rank(x.id) \in Nat
      BY Counting, ItemsFinite DEF Rank, Before
    <3>5. P \subseteq Items BY DEF Pages
    <3> QED BY <3>1, <3>2, <3>3, <3>4, <3>5
  <2> QED BY <2>2, <2>3
<1>2. TypeOK => ((list # "bookings" \/ Twins = {}) =>
        \A offset \in Nat : \A P \in Pages(offset) :
          /\ \A Q \in Pages(offset) : P = Q
          /\ \A Q \in Pages(offset + Limit) : P \cap Q = {})
  BY <1>1
<1> QED BY <1>2, TypeCorrect, PTL

\* The total an admin reads with a page of the blacklist is that of the list the page is
\* a page of, unless the list changed between the two statements.
THEOREM TotalsFit == Spec => []TotalFits
<1>1. Inv => TotalFits BY DEF Inv
<1> QED BY <1>1, Invariance, PTL

\* A walk that goes on has had full pages only.
WithinTheList == walk.phase # "done" => walk.offset <= Cardinality(Ids)

LEMMA WithinTheListStep ==
    ASSUME Inv, WithinTheList, [Next]_vars
    PROVE  WithinTheList'
<1> DEFINE N == Cardinality(Items)  M == Cardinality(Ids)
<1>0. N \in Nat /\ M \in Nat /\ N <= M
  <2>1. Selected \subseteq Ids /\ Cardinality(Items) = Cardinality(Selected) /\ Cardinality(Items) \in Nat
    BY ItemsFinite
  <2> QED BY <2>1, IdsAssumption, FS_Subset, FS_CardinalityType
<1>1. CASE ReadPage
  <2>1. PICK P \in Pages(walk.offset) :
          walk' = [walk EXCEPT !.phase = IF Cardinality(P) < Limit THEN "done" ELSE "asking",
                               !.at = walk.offset, !.offset = @ + Limit,
                               !.size = Cardinality(P)]
    BY <1>1 DEF ReadPage
  <2>2. walk \in Walk /\ walk.offset \in Nat BY DEF Inv, TypeOK, Walk
  <2>3. /\ Cardinality(P) \in 0 .. Limit
        /\ Cardinality(P) = Lesser(walk.offset + Limit, N) - Lesser(walk.offset, N)
    BY <2>2, PageRank DEF Inv
  <2>4. walk'.phase # "done" => Cardinality(P) = Limit
    <3>1. walk'.phase = IF Cardinality(P) < Limit THEN "done" ELSE "asking" BY <2>1, <2>2 DEF Walk
    <3> QED BY <2>3, <3>1, LimitsAssumption
  <2>5. walk'.offset = walk.offset + Limit BY <2>1, <2>2 DEF Walk
  <2>6. Cardinality(P) = Limit => walk.offset + Limit <= N
    BY <1>0, <2>2, <2>3, LimitsAssumption DEF Lesser
  <2> QED BY <1>0, <2>2, <2>4, <2>5, <2>6, LimitsAssumption DEF WithinTheList
<1>2. CASE Again
  BY <1>0, <1>2 DEF Again, FirstPage, WithinTheList
<1>3. CASE Count
  <2>1. walk.phase # "done" /\ walk'.offset = walk.offset
    BY <1>3 DEF Count, Inv, TypeOK, Walk
  <2> QED BY <2>1 DEF WithinTheList
<1>4. ASSUME walk' = [walk EXCEPT !.torn = @ \/ walk.phase = "counted"] \/ walk' = walk
      PROVE  WithinTheList'
  <2>1. walk'.phase = walk.phase /\ walk'.offset = walk.offset
    BY <1>4 DEF Inv, TypeOK, Walk
  <2> QED BY <2>1 DEF WithinTheList
<1>5. CASE Tick BY <1>4, <1>5 DEF Tick, Remember
<1>6. ASSUME NEW i \in Ids, Seen(i) \/ Bounce(i) \/ Edit(i) PROVE WithinTheList'
  BY <1>4, <1>6 DEF Seen, Bounce, Edit, Change, Remember
<1>7. CASE UNCHANGED vars BY <1>4, <1>7 DEF vars
<1> QED BY <1>1, <1>2, <1>3, <1>5, <1>6, <1>7 DEF Next

\* Every walk ends after its pages, at most one more than the rows can fill, however the
\* list changes meanwhile: rows that keep coming ahead of the client do not hold it up.
THEOREM WalksRunOut ==
    Spec => [](walk.phase # "done" => walk.offset <= Cardinality(Ids))
<1>1. Init => WithinTheList
  <2>1. Cardinality(Ids) \in Nat BY IdsAssumption, FS_CardinalityType
  <2> QED BY <2>1 DEF Init, FirstPage, WithinTheList
<1>2. Inv /\ WithinTheList /\ [Next]_vars => WithinTheList' BY WithinTheListStep
<1>3. WithinTheList => (walk.phase # "done" => walk.offset <= Cardinality(Ids))
  BY DEF WithinTheList
<1> QED BY <1>1, <1>2, <1>3, Invariance, PTL DEF Spec
====
