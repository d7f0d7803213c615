---- MODULE ConnectionPool_proofs ----
(***************************************************************************)
(* Proofs about ConnectionPool, for pools of every size and any number of  *)
(* requests and outages.  Liveness stays with the model checker.           *)
(***************************************************************************)
EXTENDS ConnectionPool, FiniteSetTheorems, SequenceTheorems, TLAPS

(***************************************************************************)
(* Types, and the number of connections.                                   *)
(***************************************************************************)

LEMMA HoldersFinite == IsFiniteSet(Holders) /\ InUse \in Nat
<1>1. Holders \subseteq Requests BY DEF Holders
<1>2. IsFiniteSet(Holders) BY <1>1, PoolAssumption, FS_Subset
<1> QED BY <1>2, FS_CardinalityType DEF InUse

\* What remains of a handler after one of its awaits.
LEMMA TodoTail ==
    ASSUME NEW t \in Shapes \cup Tails, t # <<>>
    PROVE  Tail(t) \in Tails /\ <<>> \in Tails
<1>1. Tail(<<"call">>) = <<>> /\ Tail(<<"fetch">>) = <<>> /\ Tail(<<"execute">>) = <<>>
  OBVIOUS
<1>2. /\ Tail(<<"fetch", "call">>) = <<"call">>
      /\ Tail(<<"fetch", "execute">>) = <<"execute">>
  OBVIOUS
<1> QED BY <1>1, <1>2 DEF Shapes, Tails

\* A request that gives its connection up makes room for the one that may be kept.
LEMMA ReleaseCounts ==
    ASSUME TypeOK, NEW r \in Requests, Release(r)
    PROVE  /\ conn' \in [Requests -> Generations \cup {None}]
           /\ idle' \in Seq(Nat) /\ Len(idle') <= PoolSize
           /\ Len(idle') + InUse' <= Limit
           /\ \A q \in Requests : q # r => conn'[q] = conn[q]
           /\ conn'[r] = None
<1> USE PoolAssumption
<1>1. /\ conn' = [conn EXCEPT ![r] = None]
      /\ idle' = IdleWith(conn[r])
  BY DEF Release
<1>2. /\ conn' \in [Requests -> Generations \cup {None}] /\ conn'[r] = None
      /\ \A q \in Requests : q # r => conn'[q] = conn[q]
  BY <1>1 DEF TypeOK
<1>3. Holders' = Holders \ {r} BY <1>2 DEF Holders
<1>4. IsFiniteSet(Holders) /\ InUse \in Nat BY HoldersFinite
<1>5. InUse' = IF r \in Holders THEN InUse - 1 ELSE InUse
  BY <1>3, <1>4, FS_RemoveElement DEF InUse
<1>6. idle \in Seq(Nat) /\ Len(idle) \in Nat /\ Limit \in Nat
  BY DEF TypeOK, Limit
<1>7. CASE conn[r] \in Nat /\ Len(idle) < PoolSize
  <2>1. idle' = Append(idle, conn[r]) BY <1>1, <1>7 DEF IdleWith
  <2>2. idle' \in Seq(Nat) /\ Len(idle') = Len(idle) + 1 BY <1>6, <1>7, <2>1
  <2>3. r \in Holders BY <1>7 DEF Holders
  <2> QED BY <1>2, <1>4, <1>5, <1>6, <1>7, <2>2, <2>3 DEF TypeOK
<1>8. CASE ~(conn[r] \in Nat /\ Len(idle) < PoolSize)
  <2>1. idle' = idle BY <1>1, <1>8 DEF IdleWith
  <2> QED BY <1>2, <1>4, <1>5, <1>6, <2>1 DEF TypeOK
<1> QED BY <1>7, <1>8

LEMMA TypeInit == Init => TypeOK
<1> SUFFICES ASSUME Init PROVE TypeOK OBVIOUS
<1>1. Holders = {} BY DEF Init, Holders
<1>2. InUse = 0 BY <1>1, FS_EmptySet DEF InUse
<1>3. None # New BY PoolAssumption DEF New
<1> QED BY <1>2, <1>3, PoolAssumption DEF Init, TypeOK, Phases, Shapes, Tails, Limit, New, Generations

\* Where no connection changes hands, only the requests and the database can.
LEMMA TypeSame ==
    ASSUME TypeOK, UNCHANGED <<conn, idle>>,
           req' \in [Requests -> [phase : Phases, todo : Shapes \cup Tails]],
           \A q \in Requests : req'[q].phase = "taken" <=> req[q].phase = "taken",
           db' \in [up : BOOLEAN, stops : Nat], hit' \in [Requests -> BOOLEAN]
    PROVE  TypeOK'
<1>1. Holders' = Holders BY DEF Holders
<1>2. InUse' = InUse BY <1>1 DEF InUse
<1> QED BY <1>2 DEF TypeOK

\* A connection given back by a request that is no longer testing one.
LEMMA TypeRelease ==
    ASSUME TypeOK, NEW r \in Requests, Release(r),
           req' \in [Requests -> [phase : Phases, todo : Shapes \cup Tails]],
           \A q \in Requests : q # r => req'[q] = req[q],
           req'[r].phase # "taken", UNCHANGED <<db, hit>>
    PROVE  TypeOK'
<1>1. None # New BY PoolAssumption DEF New
<1> QED BY <1>1, ReleaseCounts DEF TypeOK

LEMMA TypeStep ==
    ASSUME TypeOK, [Next]_vars
    PROVE  TypeOK'
<1> USE PoolAssumption
<1>0. None # New /\ New \notin Nat /\ None \notin Nat BY DEF New
<1>1. ASSUME NEW r \in Requests, Begin(r) PROVE TypeOK'
  <2>1. req' \in [Requests -> [phase : Phases, todo : Shapes \cup Tails]]
    BY <1>1 DEF Begin, TypeOK, Phases
  <2>2. \A q \in Requests : req'[q].phase = "taken" <=> req[q].phase = "taken"
    BY <1>1 DEF Begin, TypeOK
  <2>3. hit' \in [Requests -> BOOLEAN] BY <1>1 DEF Begin, TypeOK
  <2> QED BY <1>1, <2>1, <2>2, <2>3, TypeSame DEF Begin, TypeOK
<1>2. ASSUME NEW r \in Requests, Take(r) PROVE TypeOK'
  <2>1. req' \in [Requests -> [phase : Phases, todo : Shapes \cup Tails]]
    BY <1>2 DEF Take, TypeOK, Phases
  <2>2. r \notin Holders /\ IsFiniteSet(Holders) /\ InUse \in Nat
    BY <1>2, HoldersFinite DEF Take, Waiting, Holders
  <2>3. /\ conn'[r] # None /\ conn'[r] \in Generations /\ \A q \in Requests : q # r => conn'[q] = conn[q]
        /\ conn' \in [Requests -> Generations \cup {None}]
        /\ idle' \in Seq(Nat) /\ Len(idle') <= PoolSize /\ Len(idle') + InUse < Limit
    <3>1. Len(idle) \in Nat /\ Limit \in Nat BY DEF TypeOK, Limit
    <3>2. CASE idle # <<>> /\ conn' = [conn EXCEPT ![r] = Head(idle)] /\ idle' = Tail(idle)
      <4>1. /\ Head(idle) \in Nat /\ Tail(idle) \in Seq(Nat) /\ Len(Tail(idle)) = Len(idle) - 1
        BY <3>2 DEF TypeOK
      <4> QED BY <1>0, <2>2, <3>1, <3>2, <4>1 DEF TypeOK, Generations
    <3>3. CASE idle = <<>> /\ InUse < Limit /\ conn' = [conn EXCEPT ![r] = New] /\ UNCHANGED idle
      BY <1>0, <2>2, <3>1, <3>3 DEF TypeOK, Generations
    <3> QED BY <1>2, <3>2, <3>3 DEF Take
  <2>4. Holders' = Holders \cup {r} BY <2>3 DEF Holders
  <2>5. InUse' = InUse + 1 BY <2>2, <2>4, FS_AddElement DEF InUse
  <2>6. Len(idle') + InUse' <= Limit
    <3>1. Len(idle') \in Nat /\ Limit \in Nat BY <2>3 DEF Limit
    <3> QED BY <2>2, <2>3, <2>5, <3>1
  <2>7. req'[r].phase = "taken" /\ \A q \in Requests : q # r => req'[q] = req[q]
    BY <1>2 DEF Take, TypeOK
  <2> QED BY <1>2, <2>1, <2>3, <2>6, <2>7 DEF Take, TypeOK
<1>3. ASSUME NEW r \in Requests, GiveUp(r) PROVE TypeOK'
  <2>1. req' \in [Requests -> [phase : Phases, todo : Shapes \cup Tails]]
    BY <1>3 DEF GiveUp, TypeOK, Phases, Tails
  <2>2. \A q \in Requests : req'[q].phase = "taken" <=> req[q].phase = "taken"
    BY <1>3 DEF GiveUp, Waiting, TypeOK
  <2> QED BY <1>3, <2>1, <2>2, TypeSame DEF GiveUp, TypeOK
<1>4. ASSUME NEW r \in Requests, Connect(r) PROVE TypeOK'
  <2>1. /\ req' \in [Requests -> [phase : Phases, todo : Shapes \cup Tails]]
        /\ req'[r].phase = "working" /\ \A q \in Requests : q # r => req'[q] = req[q]
    BY <1>4 DEF Connect, TypeOK, Phases
  <2>2. /\ conn' \in [Requests -> Generations \cup {None}] /\ conn'[r] \in Nat
        /\ \A q \in Requests : q # r => conn'[q] = conn[q]
    BY <1>4 DEF Connect, Connected, TypeOK, Generations
  <2>3. conn[r] # None BY <1>4 DEF Connect, TypeOK
  <2>4. Holders' = Holders BY <1>0, <2>2, <2>3 DEF Holders
  <2>5. InUse' = InUse BY <2>4 DEF InUse
  <2> QED BY <1>0, <1>4, <2>1, <2>2, <2>5 DEF Connect, TypeOK
<1>5. ASSUME NEW r \in Requests, ConnectFails(r) PROVE TypeOK'
  <2>1. /\ req' \in [Requests -> [phase : Phases, todo : Shapes \cup Tails]]
        /\ req'[r].phase # "taken" /\ \A q \in Requests : q # r => req'[q] = req[q]
    BY <1>5 DEF ConnectFails, Fail, TypeOK, Phases, Tails
  <2> QED BY <1>5, <2>1, TypeRelease DEF ConnectFails, Fail
<1>6. ASSUME NEW r \in Requests, Proceed(r), req[r].todo # <<>>
      PROVE  /\ req' \in [Requests -> [phase : Phases, todo : Shapes \cup Tails]]
             /\ req'[r].phase = req[r].phase
             /\ \A q \in Requests : q # r => req'[q] = req[q]
  <2>1. req[r].todo \in Shapes \cup Tails BY DEF TypeOK
  <2>2. Tail(req[r].todo) \in Tails /\ <<>> \in Tails BY <1>6, <2>1, TodoTail
  <2>3. PICK rest \in {Tail(req[r].todo), <<>>} : req' = [req EXCEPT ![r].todo = rest]
    BY <1>6 DEF Proceed
  <2> QED BY <2>2, <2>3 DEF TypeOK
<1>7. ASSUME NEW r \in Requests, Statement(r) PROVE TypeOK'
  <2>1. req[r].todo # <<>> /\ req[r].phase = "working" /\ Proceed(r)
    BY <1>7 DEF Statement, Executing
  <2>2. CASE UNCHANGED <<conn, idle>>
    <3>1. \A q \in Requests : req'[q].phase = "taken" <=> req[q].phase = "taken"
      BY <1>6, <2>1
    <3> QED BY <1>6, <1>7, <2>1, <2>2, <3>1, TypeSame DEF Statement, TypeOK
  <2>3. CASE Release(r)
    BY <1>6, <1>7, <2>1, <2>3, TypeRelease DEF Statement
  <2> QED BY <1>7, <2>2, <2>3 DEF Statement
<1>8. ASSUME NEW r \in Requests, StatementFails(r) PROVE TypeOK'
  <2>1. req' \in [Requests -> [phase : Phases, todo : Shapes \cup Tails]]
    BY <1>8 DEF StatementFails, Fail, TypeOK, Phases, Tails
  <2>2. \A q \in Requests : req'[q].phase = "taken" <=> req[q].phase = "taken"
    BY <1>8 DEF StatementFails, Fail, Executing, TypeOK
  <2> QED BY <1>8, <2>1, <2>2, TypeSame DEF StatementFails, Fail, TypeOK
<1>9. ASSUME NEW r \in Requests, EndCall(r) PROVE TypeOK'
  <2>1. req[r].todo # <<>> /\ Proceed(r) BY <1>9 DEF EndCall
  <2>2. \A q \in Requests : req'[q].phase = "taken" <=> req[q].phase = "taken"
    BY <1>6, <2>1
  <2> QED BY <1>6, <1>9, <2>1, <2>2, TypeSame DEF EndCall, TypeOK
<1>10. ASSUME NEW r \in Requests, Respond(r) PROVE TypeOK'
  <2>1. req' \in [Requests -> [phase : Phases, todo : Shapes \cup Tails]]
    BY <1>10 DEF Respond, TypeOK, Phases
  <2>2. \A q \in Requests : req'[q].phase = "taken" <=> req[q].phase = "taken"
    BY <1>10 DEF Respond, TypeOK
  <2> QED BY <1>10, <2>1, <2>2, TypeSame DEF Respond, TypeOK
<1>11. ASSUME NEW r \in Requests, Close(r) PROVE TypeOK'
  <2>1. /\ req' \in [Requests -> [phase : Phases, todo : Shapes \cup Tails]]
        /\ req'[r].phase # "taken" /\ \A q \in Requests : q # r => req'[q] = req[q]
    BY <1>11 DEF Close, TypeOK, Phases
  <2> QED BY <1>11, <2>1, TypeRelease DEF Close
<1>12. CASE Stop \/ Start
  <2>1. CASE Stop
    <3>1. db.stops + 1 \in Nat BY DEF TypeOK
    <3>2. db' \in [up : BOOLEAN, stops : Nat] BY <2>1, <3>1 DEF Stop
    <3>3. hit' \in [Requests -> BOOLEAN] BY <2>1 DEF Stop
    <3> QED BY <2>1, <3>2, <3>3, TypeSame DEF Stop, TypeOK
  <2>2. CASE Start
    <3>1. db' \in [up : BOOLEAN, stops : Nat] BY <2>2 DEF Start, TypeOK
    <3> QED BY <2>2, <3>1, TypeSame DEF Start, TypeOK
  <2> QED BY <1>12, <2>1, <2>2
<1>13. CASE UNCHANGED vars BY <1>13, TypeSame DEF vars, TypeOK
<1> QED BY <1>1, <1>2, <1>3, <1>4, <1>5, <1>7, <1>8, <1>9, <1>10, <1>11, <1>12, <1>13
        DEF Next, Handler

\* The pool never holds more connections than it may, idle ones included.
THEOREM TypeCorrect == Spec => []TypeOK
<1>1. TypeOK /\ [Next]_vars => TypeOK' BY TypeStep
<1> QED BY <1>1, TypeInit, PTL DEF Spec

----
(***************************************************************************)
(* Who holds a connection, and of which PostgreSQL.                        *)
(***************************************************************************)

\* Only a request in progress holds a connection; it is as new as PostgreSQL, or an
\* outage met the request; there is no outage that a request in progress has not met.
HoldInv ==
    \A r \in Requests :
        /\ conn[r] # None => req[r].phase # "idle"
        /\ req[r].phase = "working" /\ conn[r] # None => conn[r] = db.stops \/ hit[r]
        /\ req[r].phase # "idle" /\ ~db.up => hit[r]
        /\ req[r].phase = "failed" => hit[r]

Inv == TypeOK /\ HoldInv

LEMMA HoldInit == Init => HoldInv
BY DEF Init, HoldInv

LEMMA HoldStep ==
    ASSUME Inv, [Next]_vars
    PROVE  HoldInv'
<1> USE DEF Inv
<1>1. ASSUME NEW r \in Requests,
             \A q \in Requests : q # r => req'[q] = req[q] /\ conn'[q] = conn[q] /\ hit'[q] = hit[q],
             UNCHANGED db,
             conn'[r] # None => req'[r].phase # "idle",
             req'[r].phase = "working" /\ conn'[r] # None => conn'[r] = db.stops \/ hit'[r],
             req'[r].phase # "idle" /\ ~db.up => hit'[r],
             req'[r].phase = "failed" => hit'[r]
      PROVE  HoldInv'
  BY <1>1 DEF HoldInv
<1>2. ASSUME NEW r \in Requests, Begin(r) PROVE HoldInv'
  <2>1. PICK shape \in Shapes : req' = [req EXCEPT ![r] = [phase |-> "working", todo |-> shape]]
    BY <1>2 DEF Begin
  <2>2. /\ req'[r].phase = "working" /\ \A q \in Requests : q # r => req'[q] = req[q]
        /\ hit'[r] = ~db.up /\ \A q \in Requests : q # r => hit'[q] = hit[q]
    BY <1>2, <2>1 DEF Begin, TypeOK
  <2>3. conn[r] = None BY <1>2 DEF Begin, HoldInv
  <2> QED BY <1>1, <1>2, <2>2, <2>3 DEF Begin
<1>3. ASSUME NEW r \in Requests, Take(r) PROVE HoldInv'
  BY <1>1, <1>3 DEF Take, Waiting, TypeOK, HoldInv
<1>4. ASSUME NEW r \in Requests, GiveUp(r) PROVE HoldInv'
  BY <1>1, <1>4 DEF GiveUp, Waiting, TypeOK, HoldInv
<1>5. ASSUME NEW r \in Requests, Connect(r) PROVE HoldInv'
  BY <1>1, <1>5 DEF Connect, Connected, TypeOK, HoldInv
<1>6. ASSUME NEW r \in Requests, ConnectFails(r) PROVE HoldInv'
  BY <1>1, <1>6, ReleaseCounts DEF ConnectFails, Fail, TypeOK, HoldInv
<1>7. ASSUME NEW r \in Requests, Proceed(r)
      PROVE  req'[r].phase = req[r].phase /\ \A q \in Requests : q # r => req'[q] = req[q]
  BY <1>7 DEF Proceed, TypeOK
<1>8. ASSUME NEW r \in Requests, Statement(r) PROVE HoldInv'
  <2>1. UNCHANGED <<conn, idle>> \/ Release(r) BY <1>8 DEF Statement
  <2>2. /\ conn'[r] # None => conn'[r] = conn[r]
        /\ \A q \in Requests : q # r => conn'[q] = conn[q]
    BY <2>1, ReleaseCounts
  <2> QED BY <1>1, <1>7, <1>8, <2>2 DEF Statement, Executing, TypeOK, HoldInv
<1>9. ASSUME NEW r \in Requests, StatementFails(r) PROVE HoldInv'
  <2>1. hit[r] BY <1>9 DEF StatementFails, Executing, HoldInv
  <2> QED BY <1>1, <1>9, <2>1 DEF StatementFails, Fail, TypeOK, HoldInv
<1>10. ASSUME NEW r \in Requests, EndCall(r) PROVE HoldInv'
  BY <1>1, <1>7, <1>10 DEF EndCall, TypeOK, HoldInv
<1>11. ASSUME NEW r \in Requests, Respond(r) PROVE HoldInv'
  BY <1>1, <1>11 DEF Respond, TypeOK, HoldInv
<1>12. ASSUME NEW r \in Requests, Close(r) PROVE HoldInv'
  BY <1>1, <1>12, ReleaseCounts DEF Close, TypeOK, HoldInv
<1>13. CASE Stop BY <1>13 DEF Stop, HoldInv
<1>14. CASE Start BY <1>14 DEF Start, TypeOK, HoldInv
<1>15. CASE UNCHANGED vars BY <1>15 DEF vars, HoldInv
<1> QED BY <1>2, <1>3, <1>4, <1>5, <1>6, <1>8, <1>9, <1>10, <1>11, <1>12, <1>13, <1>14, <1>15
        DEF Next, Handler

LEMMA InvAlways == Spec => []Inv
<1>1. Inv /\ [Next]_vars => Inv' BY TypeStep, HoldStep DEF Inv
<1>2. Init => Inv BY TypeInit, HoldInit DEF Inv
<1> QED BY <1>1, <1>2, PTL DEF Spec

\* The ping before a connection is used keeps outages from outliving themselves: a
\* request fails for want of PostgreSQL only if it was down while the request ran.
THEOREM OutagesDoPass == Spec => []OutagesPass
<1>1. Inv => OutagesPass BY DEF Inv, HoldInv, OutagesPass
<1> QED BY <1>1, InvAlways, PTL

\* A request is refused only when as many others are in progress as there are
\* connections: sessions are closed on every path.
THEOREM RefusalsNeedOthers == Spec => RefusedOnlyByOthers
<1>1. ASSUME Inv, [Next]_vars, NEW r \in Requests,
             req[r].phase = "working", req'[r].phase = "refused"
      PROVE  Cardinality({q \in Requests \ {r} : InProgress(q)}) >= Limit
  <2>1. GiveUp(r)
    <3>1. req'[r] # req[r] BY <1>1
    <3>2. ASSUME NEW q \in Requests, Handler(q)
          PROVE  /\ q # r => req'[r] = req[r]
                 /\ GiveUp(q) \/ req'[q].phase # "refused" \/ req'[q].phase = req[q].phase
      <4>1. CASE Begin(q)
        <5>1. PICK shape \in Shapes : req' = [req EXCEPT ![q] = [phase |-> "working", todo |-> shape]]
          BY <4>1 DEF Begin
        <5> QED BY <5>1 DEF Inv, TypeOK
      <4>2. CASE Take(q) \/ Connect(q)
        <5>1. PICK p \in {"taken", "working"} : req' = [req EXCEPT ![q].phase = p]
          BY <4>2 DEF Take, Connect
        <5> QED BY <5>1 DEF Inv, TypeOK
      <4>4. CASE Respond(q) \/ Close(q)
        <5>1. PICK p \in {"answered", "idle"} : req' = [req EXCEPT ![q].phase = p]
          BY <4>4 DEF Respond, Close
        <5> QED BY <5>1 DEF Inv, TypeOK
      <4>5. CASE ConnectFails(q) \/ StatementFails(q)
        <5>1. req' = [req EXCEPT ![q] = [phase |-> "failed", todo |-> <<>>]]
          BY <4>5 DEF ConnectFails, StatementFails, Fail
        <5> QED BY <5>1 DEF Inv, TypeOK
      <4>6. CASE GiveUp(q) BY <4>6 DEF GiveUp, Inv, TypeOK
      <4>3. CASE Statement(q) \/ EndCall(q)
        <5>1. PICK rest \in {Tail(req[q].todo), <<>>} : req' = [req EXCEPT ![q].todo = rest]
          BY <4>3 DEF Statement, EndCall, Proceed
        <5> QED BY <5>1 DEF Inv, TypeOK
      <4> QED BY <3>2, <4>1, <4>2, <4>3, <4>4, <4>5, <4>6 DEF Handler
    <3>5. ~(Stop \/ Start \/ UNCHANGED vars) BY <3>1 DEF Stop, Start, vars
    <3> QED BY <1>1, <3>1, <3>2, <3>5 DEF Next
  <2> DEFINE Others == {q \in Requests \ {r} : InProgress(q)}
  <2>2. Holders \subseteq Others
    BY <1>1, <2>1 DEF GiveUp, Waiting, Holders, InProgress, Inv, HoldInv
  <2>3. IsFiniteSet(Others) BY PoolAssumption, FS_Subset, Others \subseteq Requests
  <2>4. InUse <= Cardinality(Others) BY <2>2, <2>3, FS_Subset DEF InUse
  <2>5. InUse = Limit BY <2>1 DEF GiveUp
  <2>6. Cardinality(Others) \in Nat /\ Limit \in Nat
    BY <2>3, FS_CardinalityType, PoolAssumption DEF Limit
  <2> QED BY <2>4, <2>5, <2>6
<1>2. Inv /\ [Next]_vars =>
        [\A r \in Requests :
           req[r].phase = "working" /\ req'[r].phase = "refused"
           => Cardinality({q \in Requests \ {r} : InProgress(q)}) >= Limit]_vars
  BY <1>1
<1> QED BY <1>2, InvAlways, PTL DEF Spec, RefusedOnlyByOthers
----
(***************************************************************************)
(* Coming to an end.  What OnlyPostgresHoldsUp rests on, apart from the    *)
(* fairness of the waits: there is always a way on, and not many steps.    *)
(***************************************************************************)

\* A request that waits for a connection gets one or runs into the pool's timeout: no
\* state of the pool leaves it neither.  Any other request that is neither at PostgreSQL
\* nor done calls a service, can respond, or can close its container.
THEOREM AlwaysAWayOn ==
    Spec => [](\A r \in Requests : InProgress(r) =>
                 \/ Executing(r) \/ req[r].phase = "taken"
                 \/ Waiting(r) /\ (idle # <<>> \/ InUse < Limit \/ InUse = Limit)
                 \/ req[r].phase = "working" /\ (req[r].todo = <<>> \/ Head(req[r].todo) = "call")
                 \/ req[r].phase \in {"answered", "failed", "refused"})
<1>1. ASSUME TypeOK, NEW r \in Requests, InProgress(r)
      PROVE  \/ Executing(r) \/ req[r].phase = "taken"
             \/ Waiting(r) /\ (idle # <<>> \/ InUse < Limit \/ InUse = Limit)
             \/ req[r].phase = "working" /\ (req[r].todo = <<>> \/ Head(req[r].todo) = "call")
             \/ req[r].phase \in {"answered", "failed", "refused"}
  <2>1. InUse < Limit \/ InUse = Limit
    <3>1. Len(idle) \in Nat /\ Limit \in Nat /\ InUse \in Nat
      BY <1>1, HoldersFinite, PoolAssumption DEF TypeOK, Limit
    <3> QED BY <1>1, <3>1 DEF TypeOK
  <2>2. req[r].phase \in Phases /\ req[r].todo \in Shapes \cup Tails BY <1>1 DEF TypeOK
  <2>3. req[r].todo # <<>> => Head(req[r].todo) \in {"fetch", "execute", "call"}
    BY <2>2 DEF Shapes, Tails
  <2> QED BY <1>1, <2>1, <2>2, <2>3 DEF InProgress, Phases, Executing, Waiting
<1>2. TypeOK =>
        \A r \in Requests : InProgress(r) =>
          \/ Executing(r) \/ req[r].phase = "taken"
          \/ Waiting(r) /\ (idle # <<>> \/ InUse < Limit \/ InUse = Limit)
          \/ req[r].phase = "working" /\ (req[r].todo = <<>> \/ Head(req[r].todo) = "call")
          \/ req[r].phase \in {"answered", "failed", "refused"}
  BY <1>1
<1> QED BY <1>2, TypeCorrect, PTL

\* How many steps a request can still take, q being what it has to do and c its connection.
StepsLeft(q, c) ==
    IF q.phase = "idle" THEN 0
    ELSE IF q.phase = "taken" THEN 3 * Len(q.todo) + 3
    ELSE IF q.phase = "working" /\ c = None THEN 3 * Len(q.todo) + 4
    ELSE IF q.phase = "working" THEN 3 * Len(q.todo) + 2 ELSE 1

LEMMA TodoLength ==
    ASSUME NEW t \in Shapes \cup Tails
    PROVE  /\ Len(t) \in 0 .. 2 /\ Len(<<>>) = 0 /\ (t = <<>> <=> Len(t) = 0)
           /\ t # <<>> => Len(Tail(t)) = Len(t) - 1
BY DEF Shapes, Tails

\* Each step of a request, whichever it is, leaves it fewer.
LEMMA HandlerStep ==
    ASSUME TypeOK, NEW r \in Requests, Handler(r), InProgress(r)
    PROVE  StepsLeft(req'[r], conn'[r]) < StepsLeft(req[r], conn[r])
<1> DEFINE n == Len(req[r].todo)
<1>0. /\ req[r].todo \in Shapes \cup Tails /\ n \in 0 .. 2 /\ (req[r].todo = <<>> <=> n = 0)
      /\ None # New /\ None \notin Nat
  BY TodoLength, PoolAssumption DEF TypeOK, New
<1>1. ASSUME NEW phase, NEW todo \in Shapes \cup Tails, req' = [req EXCEPT ![r] = [phase |-> phase, todo |-> todo]]
      PROVE  req'[r].phase = phase /\ req'[r].todo = todo
  BY <1>1 DEF TypeOK
<1>2. ASSUME NEW phase, req' = [req EXCEPT ![r].phase = phase]
      PROVE  req'[r].phase = phase /\ req'[r].todo = req[r].todo
  BY <1>2 DEF TypeOK
<1>3. ASSUME Proceed(r), n > 0
      PROVE  req'[r].phase = req[r].phase /\ Len(req'[r].todo) \in 0 .. n - 1
  <2>1. PICK rest \in {Tail(req[r].todo), <<>>} : req' = [req EXCEPT ![r].todo = rest]
    BY <1>3 DEF Proceed
  <2>2. req'[r].phase = req[r].phase /\ req'[r].todo = rest BY <2>1 DEF TypeOK
  <2>3. Len(rest) \in {n - 1, 0} BY <1>0, <1>3, <2>1, TodoLength
  <2> QED BY <1>0, <1>3, <2>2, <2>3
<1>4. Release(r) => conn'[r] = None BY DEF Release, TypeOK
<1>5. ~Begin(r) BY DEF Begin, InProgress
<1>6. CASE Take(r)
  <2>1. /\ req[r].phase = "working" /\ conn[r] = None
        /\ req'[r].phase = "taken" /\ req'[r].todo = req[r].todo
    BY <1>2, <1>6 DEF Take, Waiting
  <2> QED BY <1>0, <2>1 DEF StepsLeft
<1>7. CASE GiveUp(r)
  <2>1. req[r].phase = "working" /\ conn[r] = None /\ req'[r].phase = "refused"
    BY <1>1, <1>7 DEF GiveUp, Waiting, Tails
  <2> QED BY <1>0, <2>1 DEF StepsLeft
<1>8. CASE Connect(r)
  <2>1. /\ req[r].phase = "taken" /\ req'[r].phase = "working" /\ req'[r].todo = req[r].todo
        /\ conn'[r] \in Nat
    BY <1>2, <1>8 DEF Connect, Connected, TypeOK
  <2>2. conn'[r] # None BY <1>0, <2>1
  <2> QED BY <1>0, <2>1, <2>2 DEF StepsLeft
<1>9. CASE ConnectFails(r) \/ StatementFails(r)
  <2>1. req[r].phase = "taken" \/ req[r].phase = "working"
    BY <1>9 DEF ConnectFails, StatementFails, Executing
  <2>2. req' = [req EXCEPT ![r] = [phase |-> "failed", todo |-> <<>>]]
    BY <1>9 DEF ConnectFails, StatementFails, Fail
  <2>3. req'[r].phase = "failed" BY <1>1, <2>2 DEF Tails
  <2> QED BY <1>0, <2>1, <2>3 DEF StepsLeft
<1>10. CASE Statement(r)
  <2>1. req[r].phase = "working" /\ conn[r] # None /\ n > 0 /\ Proceed(r)
    BY <1>0, <1>10 DEF Statement, Executing
  <2>2. StepsLeft(req[r], conn[r]) = 3 * n + 2 BY <2>1 DEF StepsLeft
  <2>3. StepsLeft(req'[r], conn'[r]) <= 3 * (n - 1) + 4 BY <1>0, <1>3, <2>1 DEF StepsLeft
  <2> QED BY <1>0, <2>2, <2>3, <1>3, <2>1 DEF StepsLeft
<1>11. CASE EndCall(r)
  <2>1. req[r].phase = "working" /\ n > 0 /\ Proceed(r) /\ conn'[r] = conn[r]
    BY <1>0, <1>11 DEF EndCall
  <2> QED BY <1>0, <1>3, <2>1 DEF StepsLeft
<1>12. CASE Respond(r)
  <2>1. req[r].phase = "working" /\ req'[r].phase = "answered" BY <1>2, <1>12 DEF Respond
  <2> QED BY <1>0, <2>1 DEF StepsLeft
<1>13. CASE Close(r)
  <2>1. req[r].phase \in {"answered", "failed", "refused"} /\ req'[r].phase = "idle"
    BY <1>2, <1>13 DEF Close
  <2> QED BY <2>1 DEF StepsLeft
<1> QED BY <1>5, <1>6, <1>7, <1>8, <1>9, <1>10, <1>11, <1>12, <1>13 DEF Handler

\* A step of one request is none of another's.
LEMMA HandlersApart ==
    ASSUME TypeOK, NEW r \in Requests, NEW q \in Requests, q # r, Handler(q)
    PROVE  req'[r] = req[r] /\ conn'[r] = conn[r]
<1> USE DEF TypeOK
<1>1. Release(q) => conn'[r] = conn[r] BY DEF Release
<1>2. Proceed(q) => req'[r] = req[r] BY DEF Proceed
<1>3. CASE Begin(q) BY <1>3 DEF Begin
<1>4. CASE Take(q) BY <1>4 DEF Take
<1>5. CASE GiveUp(q) \/ Connect(q) BY <1>5 DEF GiveUp, Connect
<1>6. CASE ConnectFails(q) \/ StatementFails(q) BY <1>1, <1>6 DEF ConnectFails, StatementFails, Fail
<1>7. CASE Statement(q) \/ EndCall(q) BY <1>1, <1>2, <1>7 DEF Statement, EndCall
<1>8. CASE Respond(q) \/ Close(q) BY <1>1, <1>8 DEF Respond, Close
<1> QED BY <1>3, <1>4, <1>5, <1>6, <1>7, <1>8 DEF Handler

\* A request in progress takes at most ten steps, whatever its handler, the pool and
\* PostgreSQL do, and only its own steps move it: it cannot be sent round in circles.
THEOREM RequestsRunOut ==
    Spec => [][\A r \in Requests : InProgress(r) =>
                 /\ StepsLeft(req[r], conn[r]) \in 1 .. 10
                 /\ \/ StepsLeft(req'[r], conn'[r]) < StepsLeft(req[r], conn[r])
                    \/ req'[r] = req[r] /\ conn'[r] = conn[r]]_vars
<1>1. ASSUME TypeOK, [Next]_vars, NEW r \in Requests, InProgress(r)
      PROVE  /\ StepsLeft(req[r], conn[r]) \in 1 .. 10
             /\ \/ StepsLeft(req'[r], conn'[r]) < StepsLeft(req[r], conn[r])
                \/ req'[r] = req[r] /\ conn'[r] = conn[r]
  <2>1. StepsLeft(req[r], conn[r]) \in 1 .. 10
    <3>1. PICK n \in 0 .. 2 : Len(req[r].todo) = n BY <1>1, TodoLength DEF TypeOK
    <3>2. StepsLeft(req[r], conn[r]) \in {1, 3 * n + 2, 3 * n + 3, 3 * n + 4}
      BY <1>1, <3>1 DEF StepsLeft, InProgress
    <3> QED BY <3>2
  <2>2. ASSUME Stop \/ Start \/ UNCHANGED vars PROVE req' = req /\ conn' = conn
    BY <2>2 DEF Stop, Start, vars
  <2> QED BY <1>1, <2>1, <2>2, HandlerStep, HandlersApart DEF Next
<1>2. TypeOK /\ [Next]_vars =>
        [\A r \in Requests : InProgress(r) =>
           /\ StepsLeft(req[r], conn[r]) \in 1 .. 10
           /\ \/ StepsLeft(req'[r], conn'[r]) < StepsLeft(req[r], conn[r])
              \/ req'[r] = req[r] /\ conn'[r] = conn[r]]_vars
  BY <1>1
<1> QED BY <1>2, TypeCorrect, PTL DEF Spec
====
