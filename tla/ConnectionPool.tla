---- MODULE ConnectionPool ----
(***************************************************************************)
(* The database connections of the service (ioc.py, adapters/sql.py).  The *)
(* session of a request takes a connection from SQLAlchemy's pool with its *)
(* first statement and gives it back when it commits or when the container *)
(* of the request closes, after the response: a handler that awaits another*)
(* service in between keeps it.  Waiting for one is bounded by the pool's  *)
(* default timeout, calls by httpx's; a statement is not bounded at all.   *)
(***************************************************************************)
EXTENDS Integers, Sequences, FiniteSets

CONSTANTS
    Requests,    \* slots for requests in progress at the same time
    PoolSize,    \* pool_size: connections kept while idle
    MaxOverflow, \* max_overflow: connections opened beyond them
    MaxOutages,  \* bound on how often PostgreSQL stops
    None         \* no connection

ASSUME PoolAssumption ==
    /\ IsFiniteSet(Requests)
    /\ PoolSize \in Nat \ {0} /\ MaxOverflow \in Nat /\ MaxOutages \in Nat
    /\ None \notin Int

VARIABLES
    req,   \* what each request still has to do
    conn,  \* the connection its session holds
    idle,  \* the pool's queue of connections nobody holds
    db,    \* whether PostgreSQL is up, and how often it has stopped
    hit    \* history: PostgreSQL was down at some time during the request

vars == <<req, conn, idle, db, hit>>

\* What a handler awaits: a statement after which the session keeps its connection
\* (fetch_one, fetch_all), one after which it is free again (execute commits; /ready
\* closes its own), another service.  Awaits of a kind in a row count as one.
Steps == {"fetch", "execute", "call"}

\* The shapes of the handlers of routes.py: probes that ask nobody and the webhook;
\* the proxies and change-email; logins, lists and details; the commands about a
\* booking and details with click counts; a PATCH of a blacklist entry; its other
\* writes and /ready.
Shapes == {<<>>, <<"call">>, <<"fetch">>, <<"fetch", "call">>, <<"fetch", "execute">>,
           <<"execute">>}

\* A request has taken a connection ("taken") or is in its handler ("working"), or its
\* response is out ("answered", "failed", "refused") and its container still open.
Phases == {"idle", "working", "taken", "answered", "failed", "refused"}

\* A connection is known by the stops of PostgreSQL before it was opened, so it is
\* broken once there was another; one that is yet to be opened is New.
New == -1
Generations == Nat \cup {New}

Limit == PoolSize + MaxOverflow
Holders == {r \in Requests : conn[r] # None}
InUse == Cardinality(Holders)

Tails == {<<>>, <<"call">>, <<"execute">>}

\* The types of the variables; no more connections than the pool allows, of which no
\* more than PoolSize wait for work.
TypeOK ==
    /\ req \in [Requests -> [phase : Phases, todo : Shapes \cup Tails]]
    /\ conn \in [Requests -> Generations \cup {None}]
    /\ idle \in Seq(Nat) /\ Len(idle) <= PoolSize /\ Len(idle) + InUse <= Limit
    /\ db \in [up : BOOLEAN, stops : Nat]
    /\ hit \in [Requests -> BOOLEAN]
    /\ \A r \in Requests : req[r].phase = "taken" => conn[r] # None
    /\ \A r \in Requests : conn[r] = New => req[r].phase = "taken"

Executing(r) ==
    /\ req[r].phase = "working" /\ conn[r] # None
    /\ req[r].todo # <<>> /\ Head(req[r].todo) \in {"fetch", "execute"}

Waiting(r) ==
    /\ req[r].phase = "working" /\ conn[r] = None
    /\ req[r].todo # <<>> /\ Head(req[r].todo) \in {"fetch", "execute"}

Init ==
    /\ req = [r \in Requests |-> [phase |-> "idle", todo |-> <<>>]]
    /\ conn = [r \in Requests |-> None]
    /\ idle = <<>>
    /\ db = [up |-> TRUE, stops |-> 0]
    /\ hit = [r \in Requests |-> FALSE]
----
(***************************************************************************)
(* Operators named Hoarded..., Unchecked..., Leaky... and Patient... are   *)
(* variants of what follows them with a plausible bug; no specification    *)
(* uses them.                                                              *)
(***************************************************************************)

HoardedIdle(c) == IF c \in Nat THEN Append(idle, c) ELSE idle

\* The queue with a connection given back: one too many is closed, and one that was
\* never opened is no connection.
IdleWith(c) == IF c \in Nat /\ Len(idle) < PoolSize THEN Append(idle, c) ELSE idle

\* The session lets go of its connection.
Release(r) ==
    /\ conn' = [conn EXCEPT ![r] = None]
    /\ idle' = IdleWith(conn[r])

\* A request reaches its handler.
Begin(r) ==
    /\ req[r].phase = "idle"
    /\ \E shape \in Shapes : req' = [req EXCEPT ![r] = [phase |-> "working", todo |-> shape]]
    /\ hit' = [hit EXCEPT ![r] = ~db.up]
    /\ UNCHANGED <<conn, idle, db>>

\* The first statement takes the connection that has been idle longest, or the right
\* to open one.  A connection that comes free goes to whoever asks first, which need
\* not be who has waited longest.
Take(r) ==
    /\ Waiting(r)
    /\ \/ /\ idle # <<>>
          /\ conn' = [conn EXCEPT ![r] = Head(idle)] /\ idle' = Tail(idle)
       \/ /\ idle = <<>> /\ InUse < Limit
          /\ conn' = [conn EXCEPT ![r] = New] /\ UNCHANGED idle
    /\ req' = [req EXCEPT ![r].phase = "taken"]
    /\ UNCHANGED <<db, hit>>

PatientGiveUp(r) == Waiting(r) /\ req' = req /\ UNCHANGED <<conn, idle, db, hit>>

\* The pool's timeout: the request ends in a 500, /ready in a 503.
GiveUp(r) ==
    /\ Waiting(r) /\ idle = <<>> /\ InUse = Limit
    /\ req' = [req EXCEPT ![r] = [phase |-> "refused", todo |-> <<>>]]
    /\ UNCHANGED <<conn, idle, db, hit>>

UncheckedConnected(r) == IF conn[r] = New THEN db.stops ELSE conn[r]

\* pool_pre_ping: a connection that does not answer is opened again.
Connected(r) == db.stops

Fail(r) ==
    /\ req' = [req EXCEPT ![r] = [phase |-> "failed", todo |-> <<>>]]
    /\ UNCHANGED <<db, hit>>

\* The connection is tested and, if need be, opened.
Connect(r) ==
    /\ req[r].phase = "taken" /\ db.up
    /\ conn' = [conn EXCEPT ![r] = Connected(r)]
    /\ req' = [req EXCEPT ![r].phase = "working"]
    /\ UNCHANGED <<idle, db, hit>>

\* There is nobody to connect to: the statement raises.
ConnectFails(r) ==
    /\ req[r].phase = "taken" /\ ~db.up
    /\ Fail(r) /\ Release(r)

\* The handler goes on, or ends here: nothing found, a refusal, an error of a service.
Proceed(r) ==
    \E rest \in {Tail(req[r].todo), <<>>} : req' = [req EXCEPT ![r].todo = rest]

\* A statement returns.
Statement(r) ==
    /\ Executing(r) /\ db.up /\ conn[r] = db.stops
    /\ Proceed(r)
    /\ \/ Head(req[r].todo) = "fetch" /\ UNCHANGED <<conn, idle>>
       \/ Head(req[r].todo) = "execute" /\ Release(r)
    /\ UNCHANGED <<db, hit>>

\* A statement on a broken connection raises.
StatementFails(r) ==
    /\ Executing(r) /\ ~(db.up /\ conn[r] = db.stops)
    /\ Fail(r)
    /\ UNCHANGED <<conn, idle>>

\* Another service answers, or the call runs into its timeout.
EndCall(r) ==
    /\ req[r].phase = "working" /\ req[r].todo # <<>> /\ Head(req[r].todo) = "call"
    /\ Proceed(r)
    /\ UNCHANGED <<conn, idle, db, hit>>

Respond(r) ==
    /\ req[r].phase = "working" /\ req[r].todo = <<>>
    /\ req' = [req EXCEPT ![r].phase = "answered"]
    /\ UNCHANGED <<conn, idle, db, hit>>

LeakyClose(r) ==
    /\ req[r].phase \in {"answered", "failed", "refused"}
    /\ req' = [req EXCEPT ![r].phase = "idle"]
    /\ \/ req[r].phase = "failed" /\ UNCHANGED <<conn, idle>>
       \/ req[r].phase # "failed" /\ Release(r)
    /\ UNCHANGED <<db, hit>>

\* provide_session: the container of the request closes its session, whatever happened.
Close(r) ==
    /\ req[r].phase \in {"answered", "failed", "refused"}
    /\ req' = [req EXCEPT ![r].phase = "idle"]
    /\ Release(r)
    /\ UNCHANGED <<db, hit>>

\* PostgreSQL stops, which breaks every connection, and starts again.
Stop ==
    /\ db.up /\ db.stops < MaxOutages
    /\ db' = [up |-> FALSE, stops |-> db.stops + 1]
    /\ hit' = [r \in Requests |-> TRUE]
    /\ UNCHANGED <<req, conn, idle>>

Start ==
    /\ ~db.up
    /\ db' = [db EXCEPT !.up = TRUE]
    /\ UNCHANGED <<req, conn, idle, hit>>

Handler(r) ==
    \/ Begin(r) \/ Take(r) \/ GiveUp(r) \/ Connect(r) \/ ConnectFails(r)
    \/ Statement(r) \/ StatementFails(r) \/ EndCall(r) \/ Respond(r) \/ Close(r)

Next == (\E r \in Requests : Handler(r)) \/ Stop \/ Start

\* What the service does by itself: waits and calls have timeouts, the rest is the
\* event loop's.  Nothing makes PostgreSQL answer, or come back.
Fairness ==
    \A r \in Requests :
        /\ WF_vars(Take(r) \/ GiveUp(r)) /\ WF_vars(EndCall(r))
        /\ WF_vars(Respond(r)) /\ WF_vars(Close(r))

Spec == Init /\ [][Next]_vars /\ Fairness
----
(***************************************************************************)
(* Properties.                                                             *)
(***************************************************************************)

InProgress(r) == req[r].phase # "idle"

\* A request is refused a connection only while as many others as there are connections
\* are in progress: no ended request, failed or not, keeps one.
RefusedOnlyByOthers ==
    [][\A r \in Requests :
         req[r].phase = "working" /\ req'[r].phase = "refused"
         => Cardinality({q \in Requests \ {r} : InProgress(q)}) >= Limit]_vars

\* An outage of PostgreSQL fails the requests it meets, and none that begins after it.
OutagesPass ==
    \A r \in Requests : req[r].phase = "failed" => hit[r]

\* Nothing but PostgreSQL holds a request up: full pool or not, up or down, it keeps
\* coming to its end or to a statement that has yet to be answered.
OnlyPostgresHoldsUp ==
    \A r \in Requests : []<>(~InProgress(r) \/ Executing(r) \/ req[r].phase = "taken")
====
