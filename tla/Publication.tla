---- MODULE Publication ----
(***************************************************************************)
(* What publishing a command event promises the route that calls it:       *)
(* a call that returns has been accepted by event-receiver at least once,  *)
(* unless it was redirected, and every call ends.  Redirected is a return  *)
(* on a 3xx answer, which accepts nothing: the caller cannot tell the two  *)
(* apart.  A call that raises promises nothing: its event may have been    *)
(* accepted before, or may be accepted later.                              *)
(***************************************************************************)
CONSTANT Publishes  \* calls of publish, each with its own event

VARIABLES
    outcome,  \* how far each call is
    applied   \* the events event-receiver has accepted

vars == <<outcome, applied>>

Init ==
    /\ outcome = [p \in Publishes |-> "none"]
    /\ applied = {}

Call(p) ==
    /\ outcome[p] = "none"
    /\ outcome' = [outcome EXCEPT ![p] = "pending"]
    /\ UNCHANGED applied

Apply(p) ==
    /\ outcome[p] # "none"
    /\ applied' = applied \cup {p}
    /\ UNCHANGED outcome

Return(p) ==
    /\ outcome[p] = "pending" /\ p \in applied
    /\ outcome' = [outcome EXCEPT ![p] = "returned"]
    /\ UNCHANGED applied

Redirect(p) ==
    /\ outcome[p] = "pending"
    /\ outcome' = [outcome EXCEPT ![p] = "redirected"]
    /\ UNCHANGED applied

Raise(p) ==
    /\ outcome[p] = "pending"
    /\ outcome' = [outcome EXCEPT ![p] = "raised"]
    /\ UNCHANGED applied

\* Calls in progress are lost with the process.
Crash ==
    /\ outcome' = [p \in Publishes |-> IF outcome[p] = "pending" THEN "lost" ELSE outcome[p]]
    /\ UNCHANGED applied

Next ==
    \/ \E p \in Publishes : Call(p) \/ Apply(p) \/ Return(p) \/ Redirect(p) \/ Raise(p)
    \/ Crash

Safety == Init /\ [][Next]_vars

Spec == Safety /\ \A p \in Publishes : WF_vars(Return(p) \/ Redirect(p) \/ Raise(p))
====
