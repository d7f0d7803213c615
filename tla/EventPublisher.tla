---- MODULE EventPublisher ----
(***************************************************************************)
(* EventPublisherClient.publish (adapters/event_publisher.py): one         *)
(* CloudEvent is posted to event-receiver, again after every transport     *)
(* failure, up to a number of attempts.  httpx raises TransportError when  *)
(* the connection fails and when the timeout passes, so a failed attempt   *)
(* may have been received, or may still be received later.                 *)
(***************************************************************************)
EXTENDS Integers

CONSTANTS
    Publishes,  \* calls of publish, each with its own event id
    Attempts,   \* settings.event_publish_attempts
    Statuses    \* the statuses event-receiver answers, by class

\* config.py: event_publish_attempts is ge=1.  "accepted" is a 2xx, "redirect"
\* a 3xx (httpx does not follow it), "refused" a 4xx or 5xx.
ASSUME AttemptsAssumption == Attempts \in Nat \ {0}
ASSUME StatusesAssumption == Statuses \subseteq {"accepted", "redirect", "refused"}

VARIABLES
    call,    \* each call of publish: where it is and the attempts it made
    wire,    \* attempts on their way to event-receiver, possibly for ever
    reply,   \* the answer to a call's latest attempt; history once the call has ended
    applied  \* attempts event-receiver accepted

vars == <<call, wire, reply, applied>>

NoReply == "none"
Running == {"posting", "backoff"}
Raised == {"refused", "unreachable"}
Call == [phase : {"idle", "published", "lost"} \cup Running \cup Raised, tries : 0 .. Attempts]

\* The types of the variables; only attempts that were made are under way, and
\* event-receiver accepts an attempt at most once.
TypeOK ==
    /\ call \in [Publishes -> Call]
    /\ wire \subseteq Publishes \X (1 .. Attempts)
    /\ reply \in [Publishes -> Statuses \cup {NoReply}]
    /\ applied \subseteq Publishes \X (1 .. Attempts)
    /\ \A a \in wire \cup applied : a[2] <= call[a[1]].tries
    /\ wire \cap applied = {}

\* Operators named Unchecked..., Strict..., Uncounted..., Eager... and
\* Swallowed... are variants of the one that follows them with a plausible bug;
\* no specification uses them.

\* No check of the response, and a check for 200 where 202 is answered.
UncheckedIsError(status) == FALSE
StrictIsError(status) == TRUE

\* response.status_code >= 400
IsError(status) == status = "refused"
----
Init ==
    /\ call = [p \in Publishes |-> [phase |-> "idle", tries |-> 0]]
    /\ wire = {}
    /\ reply = [p \in Publishes |-> NoReply]
    /\ applied = {}

End(p, phase, answer) ==
    /\ call' = [call EXCEPT ![p].phase = phase]
    /\ reply' = [reply EXCEPT ![p] = answer]

UncountedPost(p) ==
    /\ call' = [call EXCEPT ![p].phase = "posting"]
    /\ wire' = wire \cup {<<p, call[p].tries + 1>>}
    /\ UNCHANGED <<reply, applied>>

\* await self._client.post: one more attempt goes out.
Post(p) ==
    /\ call' = [call EXCEPT ![p] = [phase |-> "posting", tries |-> @.tries + 1]]
    /\ wire' = wire \cup {<<p, call[p].tries + 1>>}
    /\ UNCHANGED <<reply, applied>>

Publish(p) ==
    /\ call[p].phase = "idle"
    /\ Post(p)

EagerRetry(p) ==
    /\ call[p].phase \in {"backoff", "refused"}
    /\ call[p].tries < Attempts
    /\ Post(p)

\* The exponential wait is over; the next attempt carries the same event.
Retry(p) ==
    /\ call[p].phase = "backoff"
    /\ Post(p)

SwallowedTransportFailure(p) ==
    /\ call[p].phase = "posting"
    /\ End(p, IF call[p].tries < Attempts THEN "backoff" ELSE "published", NoReply)
    /\ UNCHANGED <<wire, applied>>

\* The connection fails or the timeout passes, whatever became of the request
\* and of an answer under way.  The last attempt's failure is raised.
TransportFailure(p) ==
    /\ call[p].phase = "posting"
    /\ End(p, IF call[p].tries < Attempts THEN "backoff" ELSE "unreachable", NoReply)
    /\ UNCHANGED <<wire, applied>>

\* A response arrives: an error status is raised without a retry, everything
\* else is success.
Respond(p) ==
    /\ call[p].phase = "posting" /\ reply[p] # NoReply
    /\ End(p, IF IsError(reply[p]) THEN "refused" ELSE "published", reply[p])
    /\ UNCHANGED <<wire, applied>>

\* event-receiver handles an attempt that reached it.  It accepts the event only
\* with a 2xx; the caller sees the answer only if it still waits for it.
Receive(p, n, status) ==
    /\ <<p, n>> \in wire
    /\ wire' = wire \ {<<p, n>>}
    /\ applied' = IF status = "accepted" THEN applied \cup {<<p, n>>} ELSE applied
    /\ reply' = IF call[p] = [phase |-> "posting", tries |-> n]
                THEN [reply EXCEPT ![p] = status]
                ELSE reply
    /\ UNCHANGED call

\* The process dies: calls in progress are not resumed, what was posted stays
\* under way.
Crash ==
    /\ call' = [p \in Publishes |->
                  IF call[p].phase \in Running THEN [call[p] EXCEPT !.phase = "lost"] ELSE call[p]]
    /\ reply' = [p \in Publishes |-> IF call[p].phase \in Running THEN NoReply ELSE reply[p]]
    /\ UNCHANGED <<wire, applied>>

Next ==
    \/ \E p \in Publishes :
         \/ Publish(p) \/ Retry(p) \/ TransportFailure(p) \/ Respond(p)
         \/ \E n \in 1 .. Attempts, status \in Statuses : Receive(p, n, status)
    \/ Crash

Safety == Init /\ [][Next]_vars

\* httpx's timeout ends an attempt that gets no answer and tenacity's wait is
\* finite; nothing is assumed of event-receiver or the network.
Fairness ==
    \A p \in Publishes :
        /\ WF_vars(TransportFailure(p) \/ Respond(p))
        /\ WF_vars(Retry(p))

Spec == Safety /\ Fairness
----
(***************************************************************************)
(* Properties.                                                             *)
(***************************************************************************)

\* The answer decides its attempt: after a refusal that attempt is not and will
\* not be accepted.  Earlier attempts may have been.
RefusedAttemptNotApplied ==
    \A p \in Publishes :
        call[p].phase = "refused" => <<p, call[p].tries>> \notin wire \cup applied

\* A publish that ends without an exception, a 202 to the admin, was answered, and its
\* latest attempt was accepted unless the answer was a 3xx: that is no error to line 77,
\* although "any final failure - transport or non-2xx - is raised" (lines 26-27), and
\* then this attempt is not and will not be accepted.
PublishedWasAnswered ==
    \A p \in Publishes : call[p].phase = "published" =>
        IF reply[p] = "redirect" THEN <<p, call[p].tries>> \notin wire \cup applied
                                 ELSE <<p, call[p].tries>> \in applied

\* A publish answered 502 took no effect ("the action was NOT applied", main.py:43).
RaisedWasNotApplied ==
    \A p \in Publishes, n \in 1 .. Attempts :
        call[p].phase \in Raised => <<p, n>> \notin applied

\* A publish that has ended is never posted again: HTTP errors are not retried
\* (tests/test_event_publisher.py:51), nor is anything after a restart.
EndedIsFinal ==
    [][\A p \in Publishes :
         call[p].phase \notin Running \cup {"idle"}
         => call'[p] = call[p] /\ \A n \in 1 .. Attempts : <<p, n>> \in wire' => <<p, n>> \in wire]_vars

\* The publisher keeps the promise of Publication.
Outcome(c, answer) ==
    CASE c.phase = "idle"      -> "none"
      [] c.phase = "published" -> IF answer = "redirect" THEN "redirected" ELSE "returned"
      [] c.phase = "lost"      -> "lost"
      [] c.phase \in Raised    -> "raised"
      [] OTHER                 -> "pending"

Promise == INSTANCE Publication
             WITH outcome <- [p \in Publishes |-> Outcome(call[p], reply[p])],
                  applied <- {a[1] : a \in applied}

\* Every behaviour of the publisher is one of Publication: what it returns it did unless
\* it was redirected, and every publish ends although event-receiver may never answer.
KeepsPromise == Promise!Spec
KeepsSafetyPromise == Promise!Safety
====
